---------------------------- MODULE Spec2Model ----------------------------
(***************************************************************************)
(* Noxiom kernel: portable entry sequence (kmain), hardware tier scoring,  *)
(* x86_64 interrupt delivery through the 8259 pair, the PS/2 keyboard ring *)
(* buffer and the two back-ends of hal_input_getchar.                      *)
(*                                                                         *)
(* Three specifications share the variables:                               *)
(*   Spec       the boot sequence of kmain on either architecture          *)
(*   SpecInput  hal_input_getchar against its producer (IRQ1 / UART RX)    *)
(*   SpecScore  hal_hw_score applied to a pair of descriptors              *)
(* A specification pins the variables of the parts it does not run.        *)
(***************************************************************************)
EXTENDS Integers, Sequences, FiniteSets

VARIABLES
    arch,            \* build-time back-end: "x86_64" or "arm64"
    pc,              \* kmain: index into kmain_steps of the step it executes next
    trace,           \* history: the steps kmain has completed, in order
    cpu,             \* "run" | "exc_halt" (isr_handler) | "hal_halt"
    g_hw_info,       \* the process-wide hardware descriptor
    tier_printed,    \* what print_hw_info wrote after "Tier: "
    g_dtb_addr,      \* arm64: DTB pointer captured by the entry stub
    dtb_blob,        \* arm64: what the blob at g_dtb_addr holds
    s_dtb,           \* arm64: cached dtb_result_t
    s_dtb_done,      \* arm64: dtb_init's once flag
    uart,            \* arm64: PL011 base pointer (0 = never initialised)
    gicd,            \* arm64: GIC distributor pointer
    gicc,            \* arm64: GIC CPU-interface pointer
    gic_enabled,     \* arm64: interrupt IDs enabled in the GIC distributor
    hal_log,         \* arm64 history: driver inits entered, devices touched by MMIO
    iflag,           \* x86_64: RFLAGS.IF
    idt_loaded,      \* x86_64: lidt executed with gates 0..47 installed
    pic_offset1,     \* x86_64: master 8259 vector offset
    pic_offset2,     \* x86_64: slave 8259 vector offset
    pic_imr,         \* x86_64: masked IRQ lines of the pair (a set of 0..15)
    hw_irq_in_isr,   \* history: a hardware IRQ was dispatched to isr_handler
    exc_printed,     \* x86_64: vector whose name isr_handler printed (-1 none)
    nirq,            \* keyboard interrupts / UART bytes raised so far
    kb_buf,          \* keyboard ring storage
    kb_head,         \* ring producer index
    kb_tail,         \* ring consumer index
    shift_held,      \* keyboard shift state
    gpc,             \* hal_input_getchar: position of the caller
    gc,              \* keyboard_getchar's local c
    accepted,        \* history: bytes buf_push stored / bytes read from UARTDR
    dropped,         \* history: number of bytes buf_push refused
    returned,        \* history: bytes hal_input_getchar returned
    rx_fifo,         \* arm64: PL011 receive FIFO
    raced,           \* history: a byte was pushed between getchar's read and its tail update
    dtb_ret,         \* SpecDtb: what dtb_parse returned (-2 = not called yet)
    dtb_prev,        \* SpecDtb: *out as it was when dtb_parse was called
    descA, descB,    \* SpecScore: two descriptors
    tierA, tierB,    \* SpecScore: their scored tiers (-1 = not scored yet)
    shell_pc,        \* shell_run: "none" not entered, "loop" reading keys, "halted" in cmd_halt
    line,            \* shell.c: the line buffer, indices 0 .. CMD_BUF-1
    line_len,        \* shell.c: characters in the current line
    vga_buf,         \* vga.c: the character of every screen cell, row-major
    cursor_x,        \* vga.c: cursor column
    cursor_y,        \* vga.c: cursor row
    prompt_at,       \* history: cell just after the current prompt (moves up a row per scroll)
    committed,       \* history: the line as it was when Enter committed it
    nul_at,          \* history: index where the last commit wrote the NUL (-1 = no commit yet)
    last_argc,       \* history: argc of the last commit's parse (-1 = parse not called)
    last_argv,       \* history: argv of the last commit's parse, as positions in line
    last_key,        \* history: the character shell_run handled last (-1 = none)
    nkeys,           \* history: characters shell_run has handled
    ndrop,           \* history: characters shell_run discarded because the line was full
    cur_color,       \* vga.c: the attribute new cells get
    shown,           \* history: the characters vga_putchar received in the last step
    nscroll,         \* history: calls of scroll in the last step
    nprompt,         \* history: calls of prompt so far
    last_cmd,        \* history: the command the last commit ran ("none" if none)
    script,          \* the characters the user is about to type, in order
    nfree,           \* history: characters typed after the script ran out
    sc_hist,         \* SpecKbd: the scancodes keyboard_irq_handler has read, in order
    pic_irr,         \* SpecEoi: 8259 pair, lines requesting service
    pic_isr,         \* SpecEoi: 8259 pair, lines in service
    gic_pending,     \* SpecEoi: GIC, pending interrupt IDs
    gic_active,      \* SpecEoi: GIC, active interrupt IDs
    in_irq,          \* SpecEoi: the interrupt whose handler is running (-1 = none)
    eoi_calls,       \* SpecEoi: calls of hal_intc_send_eoi the running handler has made
    nput,            \* SpecVga: calls of vga_putchar so far
    frames,          \* SpecGate: the handlers entered and not yet left, innermost first
    stub,            \* SpecStub: the CPU in an interrupt stub of entry.asm
    crtc_cursor,     \* SpecVga: cursor location held by CRTC registers 14 and 15
    dtb_parses       \* arm64 history: calls of dtb_parse that dtb_init has made

bootVars  == <<arch, pc, trace, cpu, g_hw_info, tier_printed,
               g_dtb_addr, dtb_blob, s_dtb, s_dtb_done, uart, gicd,
               gicc, gic_enabled, hal_log, iflag, idt_loaded, pic_offset1, pic_offset2, pic_imr,
               hw_irq_in_isr, exc_printed>>
kbVars    == <<nirq, kb_buf, kb_head, kb_tail, shift_held, accepted, dropped>>
inputVars == <<gpc, gc, returned, rx_fifo, raced>>
scoreVars == <<descA, descB, tierA, tierB>>
intcVars  == <<pic_irr, pic_isr, gic_pending, gic_active, in_irq, eoi_calls>>
gateVars  == <<frames, stub, crtc_cursor>>
ioVars    == <<sc_hist, intcVars, nput, gateVars>>
devVars   == <<ioVars, dtb_parses>>
dtbVars   == <<dtb_ret, dtb_prev>>
vgaVars   == <<vga_buf, cursor_x, cursor_y, cur_color, shown, nscroll, prompt_at>>
shellCtl  == <<shell_pc, line, line_len, nprompt, committed, nul_at, last_argc,
               last_argv, last_cmd, last_key, nkeys, ndrop, script, nfree>>
shellVars == <<shellCtl, vgaVars>>
vars      == <<bootVars, kbVars, inputVars, scoreVars, devVars, dtbVars, shellVars>>

---------------------------------------------------------------------------
(* Bounds of the model *)

\* The ring has 256 slots in the source (#define KB_BUF_SIZE 256); the model
\* runs the same code over a smaller ring.
KB_BUF_SIZE == 4

\* Keyboard interrupts (x86_64) or UART bytes (arm64) raised in one run of SpecInput.
MaxKbdIrqs == 4

\* Keyboard interrupts raised while kmain boots.
MaxBootIrqs == 2

\* Depth of the modelled PL011 receive FIFO.
MaxFifo == 2

\* Calls of hal_input_getchar that return in one run of SpecInput.
MaxGetchar == 4

---------------------------------------------------------------------------
(* Byte quantities.  ram_bytes is a uint64_t; the model keeps it exact as  *)
(* a count of whole KiB plus a remainder below 1024, since the values of   *)
(* interest (2 GiB and above) exceed the range of TLC's integers.          *)

Bytes(k, r) == [kib |-> k, b |-> r]

BytesIsZero(x) == x.kib = 0 /\ x.b = 0

\* x >= t KiB, for a threshold that is a whole number of KiB
BytesGE(x, tkib) == x.kib >= tkib

\* a <= b
BytesLE(x, y) == x.kib < y.kib \/ (x.kib = y.kib /\ x.b <= y.b)

MiB(n) == Bytes(n * 1024, 0)

---------------------------------------------------------------------------
(* hw_tier_t *)

TIER_FALLBACK == 0
TIER_LOW      == 1
TIER_MID      == 2
TIER_HIGH     == 3

hw_tier_t == {TIER_FALLBACK, TIER_LOW, TIER_MID, TIER_HIGH}

\* Mutants of hal_hw_score
hal_hw_score_low_strict(info) ==
    LET cores == info.cpu_cores
        ram   == info.ram_bytes
    IN  IF cores = 0 \/ BytesIsZero(ram) THEN TIER_FALLBACK
        ELSE IF cores >= 4 /\ BytesGE(ram, 2 * 1024 * 1024) THEN TIER_HIGH
        ELSE IF cores >= 2 /\ BytesGE(ram, 512 * 1024) THEN TIER_MID
        ELSE IF BytesGE(ram, 128 * 1024 + 1) THEN TIER_LOW
        ELSE TIER_FALLBACK

hal_hw_score_mid_first(info) ==
    LET cores == info.cpu_cores
        ram   == info.ram_bytes
    IN  IF cores = 0 \/ BytesIsZero(ram) THEN TIER_FALLBACK
        ELSE IF cores >= 2 /\ BytesGE(ram, 512 * 1024) THEN TIER_MID
        ELSE IF cores >= 4 /\ BytesGE(ram, 2 * 1024 * 1024) THEN TIER_HIGH
        ELSE IF BytesGE(ram, 128 * 1024) THEN TIER_LOW
        ELSE TIER_FALLBACK

hal_hw_score_mid_exact(info) ==
    LET cores == info.cpu_cores
        ram   == info.ram_bytes
    IN  IF cores = 0 \/ BytesIsZero(ram) THEN TIER_FALLBACK
        ELSE IF cores >= 4 /\ BytesGE(ram, 2 * 1024 * 1024) THEN TIER_HIGH
        ELSE IF cores = 2 /\ BytesGE(ram, 512 * 1024) THEN TIER_MID
        ELSE IF BytesGE(ram, 128 * 1024) THEN TIER_LOW
        ELSE TIER_FALLBACK

hal_hw_score_from_tier(info) == (info.tier + 1) % 4

\* hal_hw_score: reads cpu_cores and ram_bytes of the descriptor, first match wins
hal_hw_score(info) ==
    LET cores == info.cpu_cores
        ram   == info.ram_bytes
    IN  IF cores = 0 \/ BytesIsZero(ram) THEN TIER_FALLBACK
        ELSE IF cores >= 4 /\ BytesGE(ram, 2 * 1024 * 1024) THEN TIER_HIGH
        ELSE IF cores >= 2 /\ BytesGE(ram, 512 * 1024) THEN TIER_MID
        ELSE IF BytesGE(ram, 128 * 1024) THEN TIER_LOW
        ELSE TIER_FALLBACK

---------------------------------------------------------------------------
(* x86_64 hardware detection (cpuid.c) *)

\* Mutant of get_core_count: the leaf 1 field returned as it is
get_core_count_no_default(max_leaf, ebxB, ebx1) ==
    LET cores   == ebxB % 65536
        logical == (ebx1 \div 65536) % 256
    IN  IF max_leaf >= 11 /\ cores > 0 THEN cores ELSE logical

\* get_core_count: max_leaf = CPUID.0:EAX, ebxB = CPUID.0Bh(1):EBX, ebx1 = CPUID.1:EBX
get_core_count(max_leaf, ebxB, ebx1) ==
    LET cores   == ebxB % 65536
        logical == (ebx1 \div 65536) % 256
    IN  IF max_leaf >= 11 /\ cores > 0 THEN cores
        ELSE IF logical # 0 THEN logical ELSE 1

\* get_ram_bytes: kb_low = CMOS 0x31:0x30, kb_ext = CMOS 0x35:0x34.
\* (1024 + kb_low) * 1024 + kb_ext * 64 * 1024 bytes, floored at 128 MiB.
get_ram_bytes(kb_low, kb_ext) ==
    LET total == Bytes((1024 + kb_low) + kb_ext * 64, 0)
    IN  IF ~BytesGE(total, 128 * 1024) THEN MiB(128) ELSE total

\* Register values the model lets CPUID and the CMOS return
CpuidMaxLeaf == {1, 11}
CpuidEbxB    == {0, 2, 4, 65536 + 8}
CpuidEbx1    == {0, 65536, 3 * 65536 + 5}
CmosKbLow    == {0, 15360}
CmosKbExt    == {0, 7935, 7936, 32512, 65535}

\* The zero-initialised global g_hw_info (hal_hw_detect.c)
ZeroHwInfo ==
    [arch |-> "x86_64", cpu_cores |-> 0, ram_bytes |-> Bytes(0, 0),
     uart_base |-> Bytes(0, 0), intc_base |-> Bytes(0, 0),
     intc_dist_base |-> Bytes(0, 0), compat_str |-> <<>>, tier |-> TIER_FALLBACK]

\* cpuid_detect: fills the descriptor on x86_64, leaves tier alone
cpuid_detect(info, max_leaf, ebxB, ebx1, kb_low, kb_ext) ==
    [info EXCEPT !.arch           = "x86_64",
                 !.cpu_cores      = get_core_count(max_leaf, ebxB, ebx1),
                 !.ram_bytes      = get_ram_bytes(kb_low, kb_ext),
                 !.uart_base      = Bytes(0, 0),
                 !.intc_base      = Bytes(0, 0),
                 !.intc_dist_base = Bytes(0, 0),
                 !.compat_str     = <<>>]

---------------------------------------------------------------------------
(* C strings (string.c).  A string is a tuple of character codes; reading  *)
(* past its last element yields the terminating NUL.                       *)

\* *(s + i), for the 1-based position i
CharAt(s, i) == IF i <= Len(s) THEN s[i] ELSE 0

RECURSIVE kstrlen(_, _)
\* kstrlen of the string that starts at position i of s
kstrlen(s, i) == IF CharAt(s, i) = 0 THEN 0 ELSE 1 + kstrlen(s, i + 1)

RECURSIVE kstrcmp(_, _, _, _)
\* kstrcmp(a + i - 1, b + j - 1)
kstrcmp(a, i, b, j) ==
    IF CharAt(a, i) # 0 /\ CharAt(a, i) = CharAt(b, j)
    THEN kstrcmp(a, i + 1, b, j + 1)
    ELSE CharAt(a, i) - CharAt(b, j)

RECURSIVE kstrncmp(_, _, _, _, _)
\* kstrncmp(a + i - 1, b + j - 1, n)
kstrncmp(a, i, b, j, n) ==
    IF n = 0 THEN 0
    ELSE IF CharAt(a, i) # 0 /\ CharAt(a, i) = CharAt(b, j)
    THEN kstrncmp(a, i + 1, b, j + 1, n - 1)
    ELSE CharAt(a, i) - CharAt(b, j)

\* kstrncpy(dst, src + i - 1, n), as the string dst then holds
kstrncpy(src, i, n) ==
    LET l == kstrlen(src, i)
        m == IF l < n THEN l ELSE n
    IN  SubSeq(src, i, i + m - 1)

---------------------------------------------------------------------------
(* Flattened device tree (dtb.c) *)

\* String literals of dtb_parse
\* "memory"
STR_memory == <<109, 101, 109, 111, 114, 121>>
\* "cpus"
STR_cpus == <<99, 112, 117, 115>>
\* "cpu@"
STR_cpu_at == <<99, 112, 117, 64>>
\* "compatible"
STR_compatible == <<99, 111, 109, 112, 97, 116, 105, 98, 108, 101>>
\* "#address-cells"
STR_address_cells == <<35, 97, 100, 100, 114, 101, 115, 115, 45, 99, 101, 108, 108, 115>>
\* "#size-cells"
STR_size_cells == <<35, 115, 105, 122, 101, 45, 99, 101, 108, 108, 115>>
\* "reg"
STR_reg == <<114, 101, 103>>
\* "arm,pl011"
STR_arm_pl011 == <<97, 114, 109, 44, 112, 108, 48, 49, 49>>
\* "brcm,bcm2835-aux-uart"
STR_brcm_aux_uart == <<98, 114, 99, 109, 44, 98, 99, 109, 50, 56, 51, 53, 45, 97, 117, 120, 45, 117, 97, 114, 116>>
\* "arm,cortex-a15-gic"
STR_arm_cortex_a15_gic == <<97, 114, 109, 44, 99, 111, 114, 116, 101, 120, 45, 97, 49, 53, 45, 103, 105, 99>>
\* "arm,gic-400"
STR_arm_gic_400 == <<97, 114, 109, 44, 103, 105, 99, 45, 52, 48, 48>>
\* "arm,gic-v3"
STR_arm_gic_v3 == <<97, 114, 109, 44, 103, 105, 99, 45, 118, 51>>

\* First four bytes of a device tree blob, in memory order (0xD00DFEED big-endian)
FDT_MAGIC == <<208, 13, 254, 237>>

\* Structure block tokens
FDT_BEGIN_NODE == 1
FDT_END_NODE   == 2
FDT_PROP       == 3
FDT_NOP        == 4
FDT_END        == 9

\* A uint64_t assembled from two big-endian cells: (hi << 32) | lo
U64(hi, lo) == Bytes(hi * 4194304 + lo \div 1024, lo % 1024)

\* The zeroed dtb_result_t (kmemset(out, 0, sizeof(*out)))
ZeroDtb ==
    [uart_base |-> Bytes(0, 0), gic_dist_base |-> Bytes(0, 0),
     gic_cpu_base |-> Bytes(0, 0), ram_base |-> Bytes(0, 0),
     ram_size |-> Bytes(0, 0), cpu_count |-> 0, uart_compat |-> <<>>]

RECURSIVE compat_walk(_, _, _, _)
\* compat_match's loop, p being the offset of the entry under test
compat_walk(prop_data, len, target, p) ==
    IF p >= len THEN 0
    ELSE LET target_len == kstrlen(target, 1)
             entry_len  == kstrlen(prop_data, p + 1)
         IN  IF entry_len = target_len
                  /\ kstrncmp(prop_data, p + 1, target, 1, target_len) = 0
             THEN 1
             ELSE compat_walk(prop_data, len, target, p + entry_len + 1)

\* Mutant of compat_match: an entry that starts with the target matches
compat_match_prefix(prop_data, len, target) ==
    IF \E p \in 0 .. len - 1 :
          /\ (p = 0 \/ prop_data[p] = 0)
          /\ kstrncmp(prop_data, p + 1, target, 1, kstrlen(target, 1)) = 0
    THEN 1 ELSE 0

\* compat_match: 1 when a NUL-separated entry of the property equals target
compat_match(prop_data, len, target) == compat_walk(prop_data, len, target, 0)

\* parse_reg_base: the address of the first <address, size> pair; data holds the
\* property's 32-bit cells, len its length in bytes
parse_reg_base(data, len, addr_cells, size_cells) ==
    IF addr_cells = 2 /\ len >= 8 THEN U64(data[1], data[2])
    ELSE IF addr_cells = 1 /\ len >= 4 THEN U64(0, data[1])
    ELSE Bytes(0, 0)

\* parse_reg_size: the size of the first <address, size> pair
parse_reg_size(data, len, addr_cells, size_cells) ==
    LET offset == addr_cells * 4
        d      == SubSeq(data, addr_cells + 1, Len(data))
    IN  IF offset + size_cells * 4 > len THEN Bytes(0, 0)
        ELSE IF size_cells = 2 THEN U64(d[1], d[2])
        ELSE IF size_cells = 1 THEN U64(0, d[1])
        ELSE Bytes(0, 0)

\* The local variables of dtb_parse before its loop, with *out as given
DtbWalkInit(out) ==
    [depth |-> 0, in_memory |-> FALSE, in_cpus |-> FALSE, in_cpu |-> FALSE,
     in_uart |-> FALSE, in_gic |-> FALSE, cur_compat |-> <<>>,
     cur_compat_len |-> 0, cur_reg_data |-> <<>>, cur_reg_len |-> 0,
     has_reg |-> FALSE, root_addr_cells |-> 1, root_size_cells |-> 1, out |-> out]

\* dtb_parse, token FDT_BEGIN_NODE with the node name that follows it
DtbBeginNode(st, name) ==
    LET in_memory == st.depth = 1 /\ kstrncmp(name, 1, STR_memory, 1, 6) = 0
        in_cpus   == st.depth = 1 /\ kstrncmp(name, 1, STR_cpus, 1, 4) = 0
        in_cpu    == in_cpus /\ st.depth = 2 /\ kstrncmp(name, 1, STR_cpu_at, 1, 4) = 0
    IN  [st EXCEPT !.in_memory = in_memory, !.in_cpus = in_cpus, !.in_cpu = in_cpu,
                   !.out.cpu_count = IF in_cpu THEN @ + 1 ELSE @,
                   !.cur_compat_len = 0, !.cur_reg_len = 0, !.has_reg = FALSE,
                   !.in_uart = FALSE, !.in_gic = FALSE, !.depth = @ + 1]

\* dtb_parse, token FDT_END_NODE: commit what the node accumulated
DtbEndNode(st) ==
    LET ac   == st.root_addr_cells
        sc   == st.root_size_cells
        o0   == st.out
        o1   == IF st.in_memory /\ st.has_reg
                THEN [o0 EXCEPT
                        !.ram_base = parse_reg_base(st.cur_reg_data, st.cur_reg_len, ac, sc),
                        !.ram_size = parse_reg_size(st.cur_reg_data, st.cur_reg_len, ac, sc)]
                ELSE o0
        o2   == IF st.in_uart /\ st.has_reg /\ BytesIsZero(o1.uart_base)
                THEN [o1 EXCEPT
                        !.uart_base = parse_reg_base(st.cur_reg_data, st.cur_reg_len, ac, sc),
                        !.uart_compat = kstrncpy(st.cur_compat, 1, 63)]
                ELSE o1
        skip == (ac + sc) * 4
        o3   == IF st.in_gic /\ st.has_reg /\ BytesIsZero(o2.gic_dist_base)
                THEN [o2 EXCEPT
                        !.gic_dist_base =
                            parse_reg_base(st.cur_reg_data, st.cur_reg_len, ac, sc),
                        !.gic_cpu_base =
                            IF st.cur_reg_len >= skip * 2
                            THEN parse_reg_base(
                                     SubSeq(st.cur_reg_data, ac + sc + 1,
                                            Len(st.cur_reg_data)),
                                     st.cur_reg_len - skip, ac, sc)
                            ELSE @]
                ELSE o2
    IN  [st EXCEPT !.out = o3, !.in_memory = FALSE,
                   !.in_cpus = IF st.depth > 2 THEN @ ELSE FALSE,
                   !.in_cpu = FALSE, !.in_uart = FALSE, !.in_gic = FALSE,
                   !.depth = @ - 1]

\* dtb_parse, token FDT_PROP with the property's name, length and value
DtbProp(st, prop_name, prop_len, prop_data) ==
    IF kstrcmp(prop_name, 1, STR_compatible, 1) = 0
    THEN LET n == IF prop_len < 256 THEN prop_len ELSE 255
         IN  [st EXCEPT
                !.cur_compat_len = n,
                !.cur_compat = SubSeq(prop_data, 1, n),
                !.in_uart =
                    IF compat_match(prop_data, prop_len, STR_arm_pl011) # 0
                         \/ compat_match(prop_data, prop_len, STR_brcm_aux_uart) # 0
                    THEN TRUE ELSE @,
                !.in_gic =
                    IF compat_match(prop_data, prop_len, STR_arm_cortex_a15_gic) # 0
                         \/ compat_match(prop_data, prop_len, STR_arm_gic_400) # 0
                         \/ compat_match(prop_data, prop_len, STR_arm_gic_v3) # 0
                    THEN TRUE ELSE @]
    ELSE IF kstrcmp(prop_name, 1, STR_address_cells, 1) = 0 /\ st.depth = 1
    THEN [st EXCEPT !.root_addr_cells = prop_data[1]]
    ELSE IF kstrcmp(prop_name, 1, STR_size_cells, 1) = 0 /\ st.depth = 1
    THEN [st EXCEPT !.root_size_cells = prop_data[1]]
    ELSE IF kstrcmp(prop_name, 1, STR_reg, 1) = 0
    THEN LET n == IF prop_len < 64 THEN prop_len ELSE 64
         IN  [st EXCEPT !.has_reg = TRUE, !.cur_reg_len = n,
                        !.cur_reg_data = SubSeq(prop_data, 1, n \div 4)]
    ELSE st

\* One iteration of dtb_parse's for (;;) loop: the locals after token t
DtbStep(st, t) ==
    IF t.tok = FDT_BEGIN_NODE THEN DtbBeginNode(st, t.name)
    ELSE IF t.tok = FDT_END_NODE THEN DtbEndNode(st)
    ELSE IF t.tok = FDT_PROP THEN DtbProp(st, t.name, t.len, t.data)
    ELSE st

\* Position of the token at which dtb_parse's for (;;) loop breaks: the first
\* FDT_END or unknown token (one past the block when there is none)
DtbLoopEnd(tokens) ==
    LET stops == {i \in 1 .. Len(tokens) :
                     tokens[i].tok \notin {FDT_BEGIN_NODE, FDT_END_NODE, FDT_PROP, FDT_NOP}}
    IN  IF stops = {} THEN Len(tokens) + 1
        ELSE CHOOSE i \in stops : \A k \in stops : i <= k

RECURSIVE DtbRun(_, _, _, _)
\* The iterations of the loop for the tokens lo .. hi, in order, from the locals
\* st.  (The range is halved and each half's result bound over a one-element set
\* so that TLC computes it once and the evaluation stays shallow.)
DtbRun(tokens, lo, hi, st) ==
    IF lo > hi THEN st
    ELSE IF lo = hi THEN DtbStep(st, tokens[lo])
    ELSE LET mid == (lo + hi) \div 2
         IN  CHOOSE r \in {DtbRun(tokens, mid + 1, hi, half) :
                               half \in {DtbRun(tokens, lo, mid, st)}} : TRUE

\* dtb_parse's for (;;) loop over the structure block
DtbWalk(tokens, st) == DtbRun(tokens, 1, DtbLoopEnd(tokens) - 1, st)

\* Mutant of dtb_parse: the result is not cleared first
dtb_parse_no_clear(dtb_phys_addr, blob, out) ==
    IF dtb_phys_addr = 0 THEN [ret |-> -1, out |-> out]
    ELSE IF blob.magic # FDT_MAGIC THEN [ret |-> -1, out |-> out]
    ELSE [ret |-> 0, out |-> DtbWalk(blob.struct, DtbWalkInit(out)).out]

\* dtb_parse: clears *out, fails on a null address or a wrong magic, else walks
\* the structure block; yields the return value and *out
dtb_parse(dtb_phys_addr, blob, out) ==
    IF dtb_phys_addr = 0 THEN [ret |-> -1, out |-> ZeroDtb]
    ELSE IF blob.magic # FDT_MAGIC THEN [ret |-> -1, out |-> ZeroDtb]
    ELSE [ret |-> 0, out |-> DtbWalk(blob.struct, DtbWalkInit(ZeroDtb)).out]

\* Mutant of dtb_init_calls_parse: no once flag
dtb_init_always_parses(done) == TRUE

\* dtb_init: if (s_dtb_done) return; the call goes on to dtb_parse otherwise
dtb_init_calls_parse(done) == ~done

\* dtb_init: parse once, cache in s_dtb; yields the cache after the call
dtb_init(done, cache, addr, blob) ==
    IF dtb_init_calls_parse(done) THEN dtb_parse(addr, blob, cache).out ELSE cache

\* The calls of dtb_parse made so far, after a call of dtb_init
dtb_init_counted(done, n) == IF dtb_init_calls_parse(done) THEN n + 1 ELSE n

\* Node names, property names and compatible values of the modelled trees
\* "soc"
STR_soc == <<115, 111, 99>>
\* "memory@0"
STR_memory_at_0 == <<109, 101, 109, 111, 114, 121, 64, 48>>
\* "serial@7e201000"
STR_serial == <<115, 101, 114, 105, 97, 108, 64, 55, 101, 50, 48, 49, 48, 48, 48>>
\* "serial@7e215040"
STR_aux_serial == <<115, 101, 114, 105, 97, 108, 64, 55, 101, 50, 49, 53, 48, 52, 48>>
\* "interrupt-controller@40041000"
STR_intc == <<105, 110, 116, 101, 114, 114, 117, 112, 116, 45, 99, 111, 110, 116, 114, 111, 108, 108, 101, 114, 64, 52, 48, 48, 52, 49, 48, 48, 48>>
\* "child"
STR_child == <<99, 104, 105, 108, 100>>
\* "device_type"
STR_device_type == <<100, 101, 118, 105, 99, 101, 95, 116, 121, 112, 101>>
\* "raspberrypi,4-model-b\0brcm,bcm2711\0"
CompatBoard == <<114, 97, 115, 112, 98, 101, 114, 114, 121, 112, 105, 44, 52, 45, 109, 111, 100, 101, 108, 45, 98, 0, 98, 114, 99, 109, 44, 98, 99, 109, 50, 55, 49, 49, 0>>
\* "arm,cortex-a72\0"
CompatCpu == <<97, 114, 109, 44, 99, 111, 114, 116, 101, 120, 45, 97, 55, 50, 0>>
\* "arm,pl011\0arm,primecell\0"
CompatPl011 == <<97, 114, 109, 44, 112, 108, 48, 49, 49, 0, 97, 114, 109, 44, 112, 114, 105, 109, 101, 99, 101, 108, 108, 0>>
\* "brcm,bcm2835-pl011\0arm,pl011\0arm,primecell\0"
CompatBcmPl011 == <<98, 114, 99, 109, 44, 98, 99, 109, 50, 56, 51, 53, 45, 112, 108, 48, 49, 49, 0, 97, 114, 109, 44, 112, 108, 48, 49, 49, 0, 97, 114, 109, 44, 112, 114, 105, 109, 101, 99, 101, 108, 108, 0>>
\* "brcm,bcm2835-aux-uart\0"
CompatAuxUart == <<98, 114, 99, 109, 44, 98, 99, 109, 50, 56, 51, 53, 45, 97, 117, 120, 45, 117, 97, 114, 116, 0>>
\* "arm,pl011-axi\0xarm,pl011\0arm,pl01\0"
CompatUartNearMiss == <<97, 114, 109, 44, 112, 108, 48, 49, 49, 45, 97, 120, 105, 0, 120, 97, 114, 109, 44, 112, 108, 48, 49, 49, 0, 97, 114, 109, 44, 112, 108, 48, 49, 0>>
\* "arm,gic-400\0"
CompatGic400 == <<97, 114, 109, 44, 103, 105, 99, 45, 52, 48, 48, 0>>
\* "arm,gic-400-v2m\0arm,gic\0"
CompatGicNearMiss == <<97, 114, 109, 44, 103, 105, 99, 45, 52, 48, 48, 45, 118, 50, 109, 0, 97, 114, 109, 44, 103, 105, 99, 0>>
\* "cpu\0"
DeviceTypeCpu == <<99, 112, 117, 0>>

TokBegin(name) == [tok |-> FDT_BEGIN_NODE, name |-> name, len |-> 0, data |-> <<>>]
TokEndNode     == [tok |-> FDT_END_NODE, name |-> <<>>, len |-> 0, data |-> <<>>]
TokEnd         == [tok |-> FDT_END, name |-> <<>>, len |-> 0, data |-> <<>>]
TokNop         == [tok |-> FDT_NOP, name |-> <<>>, len |-> 0, data |-> <<>>]

\* A property whose value is a byte string
PropBytes(name, bytes) ==
    [tok |-> FDT_PROP, name |-> name, len |-> Len(bytes), data |-> bytes]

\* A property whose value is a list of big-endian 32-bit cells
PropCells(name, cells) ==
    [tok |-> FDT_PROP, name |-> name, len |-> 4 * Len(cells), data |-> cells]

\* The value v (hi, lo words) laid out in n cells
Cells(n, hi, lo) == IF n = 2 THEN <<hi, lo>> ELSE <<lo>>

\* MMIO addresses the modelled trees use: 0x3F201000, 0x3F215040, 0x40041000,
\* 0x40042000
DevAddr ==
    [uart0 |-> 1059065856, uart1 |-> 1059147840,
     gicd  |-> 1074008064, gicc  |-> 1074012160]

\* A leaf node, or with kids = TRUE a node with one child node
DevNode(name, compat, reg, kids) ==
    <<TokBegin(name), PropBytes(STR_compatible, compat), PropCells(STR_reg, reg)>>
        \o (IF kids THEN <<TokBegin(STR_child), TokEndNode>> ELSE <<>>)
        \o <<TokEndNode>>

\* /cpus with n children cpu@0 .. cpu@(n-1)
CpusNode(n) ==
    <<TokBegin(STR_cpus)>>
        \o [k \in 1 .. 4 * n |->
               CASE k % 4 = 1 -> TokBegin(STR_cpu_at \o <<48 + (k - 1) \div 4>>)
                 [] k % 4 = 2 -> PropBytes(STR_device_type, DeviceTypeCpu)
                 [] k % 4 = 3 -> PropBytes(STR_compatible, CompatCpu)
                 [] OTHER     -> TokEndNode]
        \o <<TokEndNode>>

UartShapes == {"none", "pl011", "aux", "pl011_child", "near_miss", "two", "noreg_then_aux"}

UartNodes(ac, sc, u) ==
    LET r0 == Cells(ac, 0, DevAddr.uart0) \o Cells(sc, 0, 512)
        r1 == Cells(ac, 0, DevAddr.uart1) \o Cells(sc, 0, 64)
    IN  CASE u = "pl011"       -> DevNode(STR_serial, CompatPl011, r0, FALSE)
          [] u = "aux"         -> DevNode(STR_aux_serial, CompatAuxUart, r1, FALSE)
          [] u = "pl011_child" -> DevNode(STR_serial, CompatPl011, r0, TRUE)
          [] u = "near_miss"   -> DevNode(STR_serial, CompatUartNearMiss, r0, FALSE)
          [] u = "two"         -> DevNode(STR_serial, CompatPl011, r0, FALSE)
                                    \o DevNode(STR_aux_serial, CompatAuxUart, r1, FALSE)
          [] u = "pl011_second" -> DevNode(STR_serial, CompatBcmPl011, r0, FALSE)
          [] u = "noreg_then_aux" ->
                 <<TokBegin(STR_serial), PropBytes(STR_compatible, CompatPl011),
                   TokEndNode>>
                     \o DevNode(STR_aux_serial, CompatAuxUart, r1, FALSE)
          [] OTHER             -> <<>>

GicShapes == {"none", "one_region", "two_regions", "two_regions_child", "near_miss"}

GicNodes(ac, sc, g) ==
    LET d == Cells(ac, 0, DevAddr.gicd) \o Cells(sc, 0, 4096)
        c == Cells(ac, 0, DevAddr.gicc) \o Cells(sc, 0, 8192)
    IN  CASE g = "one_region"        -> DevNode(STR_intc, CompatGic400, d, FALSE)
          [] g = "two_regions"       -> DevNode(STR_intc, CompatGic400, d \o c, FALSE)
          [] g = "two_regions_child" -> DevNode(STR_intc, CompatGic400, d \o c, TRUE)
          [] g = "near_miss"         -> DevNode(STR_intc, CompatGicNearMiss, d \o c, FALSE)
          [] OTHER                   -> <<>>

\* RAM sizes as <<hi word, lo word>>: 64 MiB, 1 GiB, 8 GiB
RamCells == {<<0, 67108864>>, <<0, 1073741824>>, <<2, 0>>}

CpuNodeCounts == {0, 1, 4}

\* A well-formed structure block: root with #address-cells, #size-cells and a
\* board compatible, then /cpus, /memory@0 and /soc with the UART and GIC nodes
TreeStruct(ac, sc, n, ram, u, g) ==
    <<TokBegin(<<>>), PropCells(STR_address_cells, <<ac>>),
      PropCells(STR_size_cells, <<sc>>), PropBytes(STR_compatible, CompatBoard)>>
        \o CpusNode(n)
        \o <<TokBegin(STR_memory_at_0),
             PropCells(STR_reg, Cells(ac, 0, 0) \o Cells(sc, ram[1], ram[2])),
             TokEndNode, TokNop>>
        \o <<TokBegin(STR_soc)>> \o UartNodes(ac, sc, u) \o GicNodes(ac, sc, g)
        \o <<TokEndNode>>
        \o <<TokEndNode, TokEnd>>

\* The well-formed blobs of the model
GoodBlobs ==
    UNION {{[magic |-> FDT_MAGIC, struct |-> TreeStruct(ac, sc, n, ram, u, g)] :
                ac \in {1, 2}, n \in CpuNodeCounts,
                ram \in {r \in RamCells : sc = 2 \/ r[1] = 0},
                u \in UartShapes, g \in GicShapes} : sc \in {1, 2}}

\* A board with four cpu@ nodes and 1 GiB of RAM, two cells per address and size
BoardBlob(u, g) ==
    [magic |-> FDT_MAGIC,
     struct |-> TreeStruct(2, 2, 4, <<0, 1073741824>>, u, g)]

\* Blobs whose first word is not the magic: byte-swapped magic before a complete
\* tree, and zeroed memory
BadMagicBlob ==
    [magic |-> <<237, 254, 13, 208>>,
     struct |-> TreeStruct(2, 2, 4, <<0, 1073741824>>, "pl011", "two_regions")]

ZeroedBlob == [magic |-> <<0, 0, 0, 0>>, struct |-> <<>>]

\* "memory-controller@0"
STR_memory_controller == <<109, 101, 109, 111, 114, 121, 45, 99, 111, 110, 116, 114, 111, 108, 108, 101, 114, 64, 48>>

\* Well-formed trees (two cells per address and size) that differ in where RAM
\* is described: a root child named memory without unit address; /memory@0
\* followed by a root child memory-controller@0 with a reg of its own; a
\* memory@0 node below /soc only; no memory node at all
MemoryShapes == {"plain", "lookalike", "nested", "absent"}

MemoryTree(m) ==
    LET ram == PropCells(STR_reg, <<0, 0, 0, 1073741824>>)
        dev == PropCells(STR_reg, <<0, DevAddr.uart0, 0, 4096>>)
    IN  <<TokBegin(<<>>), PropCells(STR_address_cells, <<2>>),
          PropCells(STR_size_cells, <<2>>), PropBytes(STR_compatible, CompatBoard)>>
            \o (CASE m = "plain" -> <<TokBegin(STR_memory), ram, TokEndNode>>
                  [] m = "lookalike" ->
                         <<TokBegin(STR_memory_at_0), ram, TokEndNode,
                           TokBegin(STR_memory_controller), dev, TokEndNode>>
                  [] m = "nested" ->
                         <<TokBegin(STR_soc), TokBegin(STR_memory_at_0), ram, TokEndNode,
                           TokEndNode>>
                  [] OTHER -> <<TokBegin(STR_soc), TokEndNode>>)
            \o <<TokEndNode, TokEnd>>

MemoryBlobs == {[magic |-> FDT_MAGIC, struct |-> MemoryTree(m)] : m \in MemoryShapes}

DtbBlobs == GoodBlobs \cup MemoryBlobs \cup {BadMagicBlob, ZeroedBlob}

---------------------------------------------------------------------------
(* VGA text console (vga.c).  A cell holds vga_entry(c, attr).              *)

\* The source has an 80 x 25 screen (vga.h); the model scales it, keeping a row
\* longer than the shell prompt
VGA_WIDTH  == 10
VGA_HEIGHT == 3

VgaCells == 0 .. VGA_WIDTH * VGA_HEIGHT - 1

\* Colours used by the shell, kmain and isr_handler (hal.h; vga.h has the same
\* values as VGA_*)
HAL_COLOR_BLACK       == 0
HAL_COLOR_CYAN        == 3
HAL_COLOR_RED         == 4
HAL_COLOR_LIGHT_GREY  == 7
HAL_COLOR_LIGHT_GREEN == 10
HAL_COLOR_LIGHT_RED   == 12
HAL_COLOR_YELLOW      == 14
HAL_COLOR_WHITE       == 15

\* HAL_COLOR(fg, bg), which is also VGA_COLOR(fg, bg)
HAL_COLOR(fg, bg) == bg * 16 + fg

\* vga_entry: the character in the low byte, the attribute in the high byte
vga_entry(c, attr) == c + attr * 256

\* The character and the attribute of a cell
CellChar(v) == v % 256
CellAttr(v) == v \div 256

\* vga_set_color on the display d = [buf, x, y, color, scrolls, out]; scrolls
\* counts the calls of scroll and out lists the characters given to vga_putchar
vga_set_color(d, color) == [d EXCEPT !.color = color]

\* vga_init, vga_clear on a display that has received nothing: every cell blank
\* in light grey on black, cursor home
vga_init ==
    LET grey == HAL_COLOR(HAL_COLOR_LIGHT_GREY, HAL_COLOR_BLACK)
    IN  [buf |-> [i \in VgaCells |-> vga_entry(32, grey)], x |-> 0, y |-> 0,
         color |-> grey, scrolls |-> 0, out |-> <<>>]

\* vga_clear: every cell blank in the current colour, cursor home
vga_clear(d) ==
    [d EXCEPT !.buf = [i \in VgaCells |-> vga_entry(32, d.color)], !.x = 0, !.y = 0]

\* scroll: every row moves up by one, the last row becomes blank in the current
\* colour.  (b = b makes TLC compute the cells once, not at every later read.)
scroll(buf, color) ==
    CHOOSE b \in {[i \in VgaCells |->
                      IF i < (VGA_HEIGHT - 1) * VGA_WIDTH THEN buf[i + VGA_WIDTH]
                      ELSE vga_entry(32, color)]} : b = b

\* vga_putchar up to its scroll test: the cell written or erased and the cursor
\* moved (cursor_y may be VGA_HEIGHT here)
vga_putchar_at(d, c) ==
    LET at == d.y * VGA_WIDTH + d.x
    IN  IF c = 10 THEN [d EXCEPT !.x = 0, !.y = @ + 1]
        ELSE IF c = 13 THEN [d EXCEPT !.x = 0]
        ELSE IF c = 8
        THEN IF d.x > 0
             THEN [d EXCEPT !.x = @ - 1,
                            !.buf = [@ EXCEPT ![at - 1] = vga_entry(32, d.color)]]
             ELSE d
        ELSE IF c = 9
        THEN LET nx == ((d.x + 8) \div 8) * 8
             IN  IF nx >= VGA_WIDTH THEN [d EXCEPT !.x = 0, !.y = @ + 1]
                 ELSE [d EXCEPT !.x = nx]
        ELSE LET drawn == [d EXCEPT !.buf = [@ EXCEPT ![at] = vga_entry(c, d.color)]]
             IN  IF d.x + 1 >= VGA_WIDTH
                 THEN [drawn EXCEPT !.x = 0, !.y = @ + 1]
                 ELSE [drawn EXCEPT !.x = @ + 1]

\* Mutant of update_cursor: the row's first cell
update_cursor_row_start(d) == d.y * VGA_WIDTH

\* update_cursor: pos = cursor_y * VGA_WIDTH + cursor_x as a uint16_t, its high
\* byte written to CRTC register 14 and its low byte to register 15; the value
\* is the cursor location the two registers then hold
update_cursor(d) ==
    LET pos == (d.y * VGA_WIDTH + d.x) % 65536
    IN  ((pos \div 256) % 256) * 256 + (pos % 256)

\* Mutant of vga_scroll_if_needed: the last row is left as it was
vga_scroll_keep_last_row(d) ==
    IF d.y >= VGA_HEIGHT
    THEN [d EXCEPT !.buf = [i \in VgaCells |->
                               IF i < (VGA_HEIGHT - 1) * VGA_WIDTH
                               THEN d.buf[i + VGA_WIDTH] ELSE d.buf[i]],
                   !.y = VGA_HEIGHT - 1, !.scrolls = @ + 1]
    ELSE d

\* The end of vga_putchar: if (cursor_y >= VGA_HEIGHT) { scroll(); cursor_y = VGA_HEIGHT - 1; }
vga_scroll_if_needed(d) ==
    IF d.y >= VGA_HEIGHT
    THEN [d EXCEPT !.buf = scroll(d.buf, d.color), !.y = VGA_HEIGHT - 1,
                   !.scrolls = @ + 1]
    ELSE d

\* vga_putchar
vga_putchar(d, c) ==
    CHOOSE r \in {[vga_scroll_if_needed(m) EXCEPT !.out = Append(@, c)] :
                      m \in {vga_putchar_at(d, c)}} : TRUE

RECURSIVE vga_print_range(_, _, _, _)
\* vga_putchar for the characters lo .. hi of s, in order.  (The range is halved
\* and each half's result bound over a one-element set so that TLC computes it
\* once.)
vga_print_range(d, s, lo, hi) ==
    IF lo > hi THEN d
    ELSE IF lo = hi THEN vga_putchar(d, s[lo])
    ELSE LET mid == (lo + hi) \div 2
         IN  CHOOSE r \in {vga_print_range(half, s, mid + 1, hi) :
                               half \in {vga_print_range(d, s, lo, mid)}} : TRUE

\* vga_print: vga_putchar for every character of the string
vga_print(d, s) == vga_print_range(d, s, 1, kstrlen(s, 1))

\* hal_display_set_color(color); hal_display_print(s);
PrintIn(d, color, s) == vga_print(vga_set_color(d, color), s)

\* The display variables as one record, and back
Display ==
    [buf |-> vga_buf, x |-> cursor_x, y |-> cursor_y, color |-> cur_color,
     scrolls |-> 0, out |-> <<>>]

CursorCell(d) == d.y * VGA_WIDTH + d.x

\* The display variables become d, after a step that printed no prompt
DisplayBecomes(d) ==
    /\ vga_buf' = d.buf
    /\ cursor_x' = d.x
    /\ cursor_y' = d.y
    /\ cur_color' = d.color
    /\ shown' = d.out
    /\ nscroll' = d.scrolls
    /\ prompt_at' = prompt_at - d.scrolls * VGA_WIDTH

\* The display variables become d, as a call of prompt has left it
PromptedDisplayBecomes(d) ==
    /\ vga_buf' = d.buf
    /\ cursor_x' = d.x
    /\ cursor_y' = d.y
    /\ cur_color' = d.color
    /\ shown' = d.out
    /\ nscroll' = d.scrolls
    /\ prompt_at' = CursorCell(d)

---------------------------------------------------------------------------
(* Shell (shell.c) on the x86_64 VGA back-end *)

\* The source has CMD_BUF 256 and MAX_ARGS 16; the model scales both
CMD_BUF  == 11
MAX_ARGS == 3

\* Number of characters typed freely, after the scripted ones, in a behaviour
MaxKeys == 3

\* What the modelled keyboard types freely: a, b, space, backspace, newline
Keys == {97, 98, 32, 8, 10}

\* "noxiom"
STR_noxiom == <<110, 111, 120, 105, 111, 109>>
\* "> "
STR_prompt_tail == <<62, 32>>
\* "help"
STR_help == <<104, 101, 108, 112>>
\* "clear"
STR_clear == <<99, 108, 101, 97, 114>>
\* "echo"
STR_echo == <<101, 99, 104, 111>>
\* "version"
STR_version == <<118, 101, 114, 115, 105, 111, 110>>
\* "halt"
STR_halt == <<104, 97, 108, 116>>
\* "Unknown command: "
STR_unknown_command == <<85, 110, 107, 110, 111, 119, 110, 32, 99, 111, 109, 109, 97, 110, 100, 58, 32>>
\* "\n"
STR_nl == <<10>>
\* "System halted.\n"
STR_system_halted == <<83, 121, 115, 116, 101, 109, 32, 104, 97, 108, 116, 101, 100, 46, 10>>
\* "Noxiom OS v0.1.0\n"
STR_version_title == <<78, 111, 120, 105, 111, 109, 32, 79, 83, 32, 118, 48, 46, 49, 46, 48, 10>>
\* "Lightweight server OS - built from scratch\n"
STR_version_body == <<76, 105, 103, 104, 116, 119, 101, 105, 103, 104, 116, 32, 115, 101, 114, 118, 101, 114, 32, 79, 83, 32, 45, 32, 98, 117, 105, 108, 116, 32, 102, 114, 111, 109, 32, 115, 99, 114, 97, 116, 99, 104, 10>>
\* "Noxiom OS built-in commands:\n"
STR_help_title == <<78, 111, 120, 105, 111, 109, 32, 79, 83, 32, 98, 117, 105, 108, 116, 45, 105, 110, 32, 99, 111, 109, 109, 97, 110, 100, 115, 58, 10>>
\* "  help      - show this message\n"
STR_help_help == <<32, 32, 104, 101, 108, 112, 32, 32, 32, 32, 32, 32, 45, 32, 115, 104, 111, 119, 32, 116, 104, 105, 115, 32, 109, 101, 115, 115, 97, 103, 101, 10>>
\* "  clear     - clear the screen\n"
STR_help_clear == <<32, 32, 99, 108, 101, 97, 114, 32, 32, 32, 32, 32, 45, 32, 99, 108, 101, 97, 114, 32, 116, 104, 101, 32, 115, 99, 114, 101, 101, 110, 10>>
\* "  echo ...  - print arguments\n"
STR_help_echo == <<32, 32, 101, 99, 104, 111, 32, 46, 46, 46, 32, 32, 45, 32, 112, 114, 105, 110, 116, 32, 97, 114, 103, 117, 109, 101, 110, 116, 115, 10>>
\* "  version   - show OS version\n"
STR_help_version == <<32, 32, 118, 101, 114, 115, 105, 111, 110, 32, 32, 32, 45, 32, 115, 104, 111, 119, 32, 79, 83, 32, 118, 101, 114, 115, 105, 111, 110, 10>>
\* "  halt      - halt the system\n"
STR_help_halt == <<32, 32, 104, 97, 108, 116, 32, 32, 32, 32, 32, 32, 45, 32, 104, 97, 108, 116, 32, 116, 104, 101, 32, 115, 121, 115, 116, 101, 109, 10>>

Grey == HAL_COLOR(HAL_COLOR_LIGHT_GREY, HAL_COLOR_BLACK)

\* Mutant of prompt: the prompt is printed twice
prompt_twice(d) ==
    vga_print(vga_print(vga_print(vga_print(d, STR_noxiom), STR_prompt_tail), STR_noxiom),
              STR_prompt_tail)

\* prompt
prompt(d) ==
    vga_set_color(
        PrintIn(PrintIn(d, HAL_COLOR(HAL_COLOR_LIGHT_GREEN, HAL_COLOR_BLACK), STR_noxiom),
                HAL_COLOR(HAL_COLOR_WHITE, HAL_COLOR_BLACK), STR_prompt_tail),
        Grey)

RECURSIVE CStr(_, _)
\* The C string that starts at buf[p]
CStr(buf, p) == IF buf[p] = 0 THEN <<>> ELSE <<buf[p]>> \o CStr(buf, p + 1)

\* Mutant of parse_skip_spaces: spaces are not skipped
parse_skip_spaces_none(buf, p) == p

RECURSIVE parse_skip_spaces(_, _)
\* while (*p == ' ') p++;
parse_skip_spaces(buf, p) ==
    IF buf[p] = 32 THEN parse_skip_spaces(buf, p + 1) ELSE p

RECURSIVE parse_skip_token(_, _)
\* while (*p && *p != ' ') p++;
parse_skip_token(buf, p) ==
    IF buf[p] # 0 /\ buf[p] # 32 THEN parse_skip_token(buf, p + 1) ELSE p

RECURSIVE parse_loop_unbounded(_, _, _, _)
\* Mutant of parse_loop: every token start is stored, without the test of argc
parse_loop_unbounded(buf, p, argc, argv) ==
    IF buf[p] = 0 THEN [buf |-> buf, argc |-> argc, argv |-> argv]
    ELSE LET q == parse_skip_spaces(buf, p)
         IN  IF buf[q] = 0 THEN [buf |-> buf, argc |-> argc, argv |-> argv]
             ELSE LET e == parse_skip_token(buf, q)
                  IN  IF buf[e] # 0
                      THEN parse_loop_unbounded([buf EXCEPT ![e] = 0], e + 1, argc + 1,
                                                Append(argv, q))
                      ELSE parse_loop_unbounded(buf, e, argc + 1, Append(argv, q))

RECURSIVE parse_loop(_, _, _, _)
\* parse's outer loop from *p on; argv holds the first MAX_ARGS token starts
parse_loop(buf, p, argc, argv) ==
    IF buf[p] = 0 THEN [buf |-> buf, argc |-> argc, argv |-> argv]
    ELSE LET q == parse_skip_spaces(buf, p)
         IN  IF buf[q] = 0 THEN [buf |-> buf, argc |-> argc, argv |-> argv]
             ELSE LET stored == argc < MAX_ARGS
                      argc1  == IF stored THEN argc + 1 ELSE argc
                      argv1  == IF stored THEN Append(argv, q) ELSE argv
                      e      == parse_skip_token(buf, q)
                  IN  IF buf[e] # 0
                      THEN parse_loop([buf EXCEPT ![e] = 0], e + 1, argc1, argv1)
                      ELSE parse_loop(buf, e, argc1, argv1)

\* parse: split buf in place; yields buf, argc and argv (positions in buf)
parse(buf) == parse_loop(buf, 0, 0, <<>>)

RECURSIVE JoinArgs(_, _, _)
\* argv[i], argv[i+1], .. joined by single spaces
JoinArgs(buf, argv, i) ==
    IF i > Len(argv) THEN <<>>
    ELSE CStr(buf, argv[i])
            \o (IF i < Len(argv) THEN <<32>> ELSE <<>>)
            \o JoinArgs(buf, argv, i + 1)

\* cmd_help
cmd_help(d) ==
    LET PrintAll(d0, strs) ==
            CHOOSE r \in {vga_print(d4, strs[5]) :
                              d4 \in {vga_print(d3, strs[4]) :
                                  d3 \in {vga_print(d2, strs[3]) :
                                      d2 \in {vga_print(d1, strs[2]) :
                                          d1 \in {vga_print(d0, strs[1])}}}}} : TRUE
    IN  PrintAll(vga_set_color(
                     PrintIn(d, HAL_COLOR(HAL_COLOR_YELLOW, HAL_COLOR_BLACK), STR_help_title),
                     Grey),
                 <<STR_help_help, STR_help_clear, STR_help_echo, STR_help_version,
                   STR_help_halt>>)

\* cmd_echo: the arguments after argv[0] separated by spaces, then a newline
cmd_echo(d, buf, argv) == vga_print(d, JoinArgs(buf, argv, 2) \o <<10>>)

\* cmd_version
cmd_version(d) ==
    PrintIn(PrintIn(d, HAL_COLOR(HAL_COLOR_CYAN, HAL_COLOR_BLACK), STR_version_title),
            Grey, STR_version_body)

\* cmd_halt up to its call of hal_halt
cmd_halt(d) ==
    PrintIn(d, HAL_COLOR(HAL_COLOR_LIGHT_RED, HAL_COLOR_BLACK), STR_system_halted)

\* Mutant of dispatch_select: the command name is matched without regard to case
dispatch_select_nocase(cmd) ==
    LET lower == [i \in 1 .. Len(cmd) |->
                     IF cmd[i] \in 65 .. 90 THEN cmd[i] + 32 ELSE cmd[i]]
        same(name) == kstrcmp(lower, 1, name, 1) = 0
    IN  IF same(STR_help) THEN "help"
        ELSE IF same(STR_clear) THEN "clear"
        ELSE IF same(STR_echo) THEN "echo"
        ELSE IF same(STR_version) THEN "version"
        ELSE IF same(STR_halt) THEN "halt"
        ELSE "unknown"

\* dispatch's chain of kstrcmp tests on argv[0]
dispatch_select(cmd) ==
    LET same(name) == kstrcmp(cmd, 1, name, 1) = 0
    IN  IF same(STR_help) THEN "help"
        ELSE IF same(STR_clear) THEN "clear"
        ELSE IF same(STR_echo) THEN "echo"
        ELSE IF same(STR_version) THEN "version"
        ELSE IF same(STR_halt) THEN "halt"
        ELSE "unknown"

\* dispatch: yields the buffer, parse's result (argc = -1 when parse was not
\* called), the display, and the command run ("none" when it returned early;
\* for "halt" the display is as cmd_halt leaves it when it calls hal_halt)
dispatch(buf, d) ==
    IF buf[0] = 0
    THEN [buf |-> buf, argc |-> -1, argv |-> <<>>, d |-> d, cmd |-> "none"]
    ELSE LET r == parse(buf)
         IN  IF r.argc = 0
             THEN [buf |-> r.buf, argc |-> 0, argv |-> <<>>, d |-> d, cmd |-> "none"]
             ELSE LET arg0 == CStr(r.buf, r.argv[1])
                      cmd  == dispatch_select(arg0)
                      after == IF cmd = "help" THEN cmd_help(d)
                               ELSE IF cmd = "clear" THEN vga_clear(d)
                               ELSE IF cmd = "echo" THEN cmd_echo(d, r.buf, r.argv)
                               ELSE IF cmd = "version" THEN cmd_version(d)
                               ELSE IF cmd = "halt" THEN cmd_halt(d)
                               ELSE vga_set_color(
                                        vga_print(
                                            vga_print(
                                                PrintIn(d, HAL_COLOR(HAL_COLOR_LIGHT_RED,
                                                                     HAL_COLOR_BLACK),
                                                        STR_unknown_command),
                                                arg0),
                                            STR_nl),
                                        Grey)
                  IN  [buf |-> r.buf, argc |-> r.argc, argv |-> r.argv, d |-> after,
                       cmd |-> cmd]

\* shell_run has not been entered: line[] is zero-initialised static storage,
\* and vga.c's statics are as initialised
ShellIdle ==
    /\ shell_pc = "none"
    /\ line = [i \in 0 .. CMD_BUF - 1 |-> 0]
    /\ line_len = 0
    /\ vga_buf = vga_init.buf
    /\ cursor_x = 0
    /\ cursor_y = 0
    /\ cur_color = Grey
    /\ shown = <<>>
    /\ nscroll = 0
    /\ prompt_at = 0
    /\ nprompt = 0
    /\ committed = <<>>
    /\ nul_at = -1
    /\ last_argc = -1
    /\ last_argv = <<>>
    /\ last_cmd = "none"
    /\ last_key = -1
    /\ nkeys = 0
    /\ ndrop = 0
    /\ script = <<>>
    /\ nfree = 0

\* Mutant of line_has_room: the bound is off by one
line_has_room_off_by_one(len) == len < CMD_BUF

\* shell_run's test before it appends a character: line_len < CMD_BUF - 1
line_has_room(len) == len < CMD_BUF - 1

---------------------------------------------------------------------------
(* PS/2 keyboard (keyboard_x86.c).  Characters are their ASCII codes.      *)

sc_table ==
    <<
         0,  27,  49,  50,  51,  52,  53,  54,  55,  56,  57,  48,  45,  61,   8,   9,
       113, 119, 101, 114, 116, 121, 117, 105, 111, 112,  91,  93,  10,   0,  97, 115,
       100, 102, 103, 104, 106, 107, 108,  59,  39,  96,   0,  92, 122, 120,  99, 118,
        98, 110, 109,  44,  46,  47,   0,  42,   0,  32,   0,   0,   0,   0,   0,   0,
         0,   0,   0,   0,   0,   0,   0,   0,   0,   0,   0,  45,   0,   0,   0,  43,
         0,   0,   0,   0,   0,   0,   0,   0,   0,   0,   0,   0,   0,   0,   0,   0,
         0,   0,   0,   0,   0,   0,   0,   0,   0,   0,   0,   0,   0,   0,   0,   0,
         0,   0,   0,   0,   0,   0,   0,   0,   0,   0,   0,   0,   0,   0,   0,   0
    >>

sc_table_shift ==
    <<
         0,  27,  33,  64,  35,  36,  37,  94,  38,  42,  40,  41,  95,  43,   8,   9,
        81,  87,  69,  82,  84,  89,  85,  73,  79,  80, 123, 125,  10,   0,  65,  83,
        68,  70,  71,  72,  74,  75,  76,  58,  34, 126,   0, 124,  90,  88,  67,  86,
        66,  78,  77,  60,  62,  63,   0,  42,   0,  32,   0,   0,   0,   0,   0,   0,
         0,   0,   0,   0,   0,   0,   0,   0,   0,   0,   0,  45,   0,   0,   0,  43,
         0,   0,   0,   0,   0,   0,   0,   0,   0,   0,   0,   0,   0,   0,   0,   0,
         0,   0,   0,   0,   0,   0,   0,   0,   0,   0,   0,   0,   0,   0,   0,   0,
         0,   0,   0,   0,   0,   0,   0,   0,   0,   0,   0,   0,   0,   0,   0,   0
    >>

SC_LSHIFT     == 42
SC_RSHIFT     == 54
SC_LSHIFT_REL == 170
SC_RSHIFT_REL == 182

\* Scancodes the model lets port 0x60 deliver:
\* Esc, 'a', LShift make, LShift break, 'a' break
Scancodes == {1, 30, 42, 170, 158}

\* Mutants of buf_push
buf_push_overwrite(buf, head, tail, c) ==
    LET next == (head + 1) % KB_BUF_SIZE
    IN  [buf |-> [buf EXCEPT ![head] = c], head |-> next, stored |-> TRUE]

buf_push_at_next(buf, head, tail, c) ==
    LET next == (head + 1) % KB_BUF_SIZE
    IN  IF next # tail
        THEN [buf |-> [buf EXCEPT ![next] = c], head |-> next, stored |-> TRUE]
        ELSE [buf |-> buf, head |-> head, stored |-> FALSE]

\* buf_push: store c at kb_head unless that would make head meet tail
buf_push(buf, head, tail, c) ==
    LET next == (head + 1) % KB_BUF_SIZE
    IN  IF next # tail
        THEN [buf |-> [buf EXCEPT ![head] = c], head |-> next, stored |-> TRUE]
        ELSE [buf |-> buf, head |-> head, stored |-> FALSE]

\* keyboard_irq_handler, for the scancode sc read from port 0x60
keyboard_irq_handler(sc) ==
    IF sc = SC_LSHIFT \/ sc = SC_RSHIFT
    THEN /\ shift_held' = 1
         /\ UNCHANGED <<kb_buf, kb_head, accepted, dropped>>
    ELSE IF sc = SC_LSHIFT_REL \/ sc = SC_RSHIFT_REL
    THEN /\ shift_held' = 0
         /\ UNCHANGED <<kb_buf, kb_head, accepted, dropped>>
    ELSE IF (sc \div 128) % 2 = 1
    THEN UNCHANGED <<shift_held, kb_buf, kb_head, accepted, dropped>>
    ELSE LET c == IF shift_held # 0 THEN sc_table_shift[sc + 1] ELSE sc_table[sc + 1]
             r == buf_push(kb_buf, kb_head, kb_tail, c)
         IN  /\ UNCHANGED shift_held
             /\ IF c # 0
                THEN /\ kb_buf'   = r.buf
                     /\ kb_head'  = r.head
                     /\ accepted' = IF r.stored THEN Append(accepted, c) ELSE accepted
                     /\ dropped'  = IF r.stored THEN dropped ELSE dropped + 1
                ELSE UNCHANGED <<kb_buf, kb_head, accepted, dropped>>

---------------------------------------------------------------------------
(* 8259 pair (pic.c) and interrupt delivery (idt.c, entry.asm) *)

AllLines == 0 .. 15

\* Lines on which the modelled hardware raises interrupts:
\* PIT timer, PS/2 keyboard, RTC
IrqSources == {0, 1, 8}

\* Mask registers as the firmware may leave them (pic_init restores them)
FirmwareImr ==
    {AllLines, AllLines \ {0}, AllLines \ {0, 1}, AllLines \ {0, 1, 8}}

\* pic_unmask: clear the line's bit in its controller's mask register
pic_unmask(imr, irq) == imr \ {irq}

\* The CPU vector the pair presents for a line
PicVector(irq) ==
    IF irq < 8 THEN pic_offset1 + irq ELSE pic_offset2 + (irq - 8)

\* exception_names, indexed from 1
exception_names ==
    <<
        <<68, 105, 118, 105, 100, 101, 45, 98, 121, 45, 90, 101, 114, 111>>,   \* 0: "Divide-by-Zero"
        <<68, 101, 98, 117, 103>>,   \* 1: "Debug"
        <<78, 77, 73>>,   \* 2: "NMI"
        <<66, 114, 101, 97, 107, 112, 111, 105, 110, 116>>,   \* 3: "Breakpoint"
        <<79, 118, 101, 114, 102, 108, 111, 119>>,   \* 4: "Overflow"
        <<66, 111, 117, 110, 100, 32, 82, 97, 110, 103, 101, 32, 69, 120, 99, 101, 101, 100, 101, 100>>,   \* 5: "Bound Range Exceeded"
        <<73, 110, 118, 97, 108, 105, 100, 32, 79, 112, 99, 111, 100, 101>>,   \* 6: "Invalid Opcode"
        <<68, 101, 118, 105, 99, 101, 32, 78, 111, 116, 32, 65, 118, 97, 105, 108, 97, 98, 108, 101>>,   \* 7: "Device Not Available"
        <<68, 111, 117, 98, 108, 101, 32, 70, 97, 117, 108, 116>>,   \* 8: "Double Fault"
        <<67, 111, 112, 114, 111, 99, 101, 115, 115, 111, 114, 32, 83, 101, 103, 109, 101, 110, 116, 32, 79, 118, 101, 114, 114, 117, 110>>,   \* 9: "Coprocessor Segment Overrun"
        <<73, 110, 118, 97, 108, 105, 100, 32, 84, 83, 83>>,   \* 10: "Invalid TSS"
        <<83, 101, 103, 109, 101, 110, 116, 32, 78, 111, 116, 32, 80, 114, 101, 115, 101, 110, 116>>,   \* 11: "Segment Not Present"
        <<83, 116, 97, 99, 107, 45, 83, 101, 103, 109, 101, 110, 116, 32, 70, 97, 117, 108, 116>>,   \* 12: "Stack-Segment Fault"
        <<71, 101, 110, 101, 114, 97, 108, 32, 80, 114, 111, 116, 101, 99, 116, 105, 111, 110, 32, 70, 97, 117, 108, 116>>,   \* 13: "General Protection Fault"
        <<80, 97, 103, 101, 32, 70, 97, 117, 108, 116>>,   \* 14: "Page Fault"
        <<82, 101, 115, 101, 114, 118, 101, 100>>,   \* 15: "Reserved"
        <<120, 56, 55, 32, 70, 80, 32, 69, 120, 99, 101, 112, 116, 105, 111, 110>>,   \* 16: "x87 FP Exception"
        <<65, 108, 105, 103, 110, 109, 101, 110, 116, 32, 67, 104, 101, 99, 107>>,   \* 17: "Alignment Check"
        <<77, 97, 99, 104, 105, 110, 101, 32, 67, 104, 101, 99, 107>>,   \* 18: "Machine Check"
        <<83, 73, 77, 68, 32, 70, 80, 32, 69, 120, 99, 101, 112, 116, 105, 111, 110>>,   \* 19: "SIMD FP Exception"
        <<86, 105, 114, 116, 117, 97, 108, 105, 122, 97, 116, 105, 111, 110>>,   \* 20: "Virtualization"
        <<67, 111, 110, 116, 114, 111, 108, 32, 80, 114, 111, 116, 101, 99, 116, 105, 111, 110>>,   \* 21: "Control Protection"
        <<82, 101, 115, 101, 114, 118, 101, 100>>,   \* 22: "Reserved"
        <<82, 101, 115, 101, 114, 118, 101, 100>>,   \* 23: "Reserved"
        <<82, 101, 115, 101, 114, 118, 101, 100>>,   \* 24: "Reserved"
        <<82, 101, 115, 101, 114, 118, 101, 100>>,   \* 25: "Reserved"
        <<82, 101, 115, 101, 114, 118, 101, 100>>,   \* 26: "Reserved"
        <<82, 101, 115, 101, 114, 118, 101, 100>>,   \* 27: "Reserved"
        <<82, 101, 115, 101, 114, 118, 101, 100>>,   \* 28: "Reserved"
        <<82, 101, 115, 101, 114, 118, 101, 100>>,   \* 29: "Reserved"
        <<83, 101, 99, 117, 114, 105, 116, 121, 32, 69, 120, 99, 101, 112, 116, 105, 111, 110>>,   \* 30: "Security Exception"
        <<82, 101, 115, 101, 114, 118, 101, 100>>   \* 31: "Reserved"
    >>

\* "\n*** KERNEL EXCEPTION: "
STR_kernel_exception == <<10, 42, 42, 42, 32, 75, 69, 82, 78, 69, 76, 32, 69, 88, 67, 69, 80, 84, 73, 79, 78, 58, 32>>
\* " ***\n"
STR_stars_nl == <<32, 42, 42, 42, 10>>

\* What isr_handler prints, in white on red
isr_print(d, int_no) ==
    LET head == PrintIn(d, HAL_COLOR(HAL_COLOR_WHITE, HAL_COLOR_RED), STR_kernel_exception)
        name == IF int_no < 32 THEN vga_print(head, exception_names[int_no + 1]) ELSE head
    IN  vga_print(name, STR_stars_nl)

\* Mutant of isr_handler: it returns to isr_common_stub, whose iretq resumes the
\* interrupted code
isr_handler_returns(int_no) ==
    /\ exc_printed' = int_no
    /\ DisplayBecomes(isr_print(Display, int_no))
    /\ UNCHANGED <<iflag, cpu>>

\* isr_handler: print the exception's name, then cli; hlt
isr_handler(int_no) ==
    /\ exc_printed' = int_no
    /\ DisplayBecomes(isr_print(Display, int_no))
    /\ iflag' = FALSE
    /\ cpu' = "exc_halt"

\* irq_handler: the keyboard handler for vector 33, then pic_send_eoi
irq_handler(int_no, sc) ==
    /\ IF int_no = 33
       THEN /\ keyboard_irq_handler(sc)
            /\ nirq' = nirq + 1
            /\ UNCHANGED kb_tail
       ELSE UNCHANGED kbVars
    /\ UNCHANGED <<exc_printed, iflag, cpu, vgaVars>>

\* A hardware interrupt on line irq is taken by the CPU.  Gates 0..31 lead to
\* isr_handler and 32..47 to irq_handler; a vector without a gate raises
\* segment-not-present (11).  The handler runs to completion (interrupt gates)
\* and its iretq resumes a halted mainline after the hlt.
HwIrq(irq, sc, cap) ==
    /\ arch = "x86_64"
    /\ iflag
    /\ idt_loaded
    /\ cpu = "run"
    /\ irq \notin pic_imr
    /\ LET v == PicVector(irq)
       IN  IF v \in 32 .. 47
           THEN /\ v = 33 => nirq < cap
                /\ irq_handler(v, sc)
                /\ gpc' = IF gpc = "halted" THEN "check" ELSE gpc
                /\ raced' = (raced \/ (gpc = "advance" /\ accepted' # accepted))
                /\ UNCHANGED hw_irq_in_isr
           ELSE /\ isr_handler(IF v \in 0 .. 31 THEN v ELSE 11)
                /\ hw_irq_in_isr' = TRUE
                /\ UNCHANGED <<kbVars, gpc, raced>>
    /\ UNCHANGED <<arch, pc, trace, g_hw_info, tier_printed, g_dtb_addr, dtb_blob,
                   s_dtb, s_dtb_done, uart, gicd, gicc, gic_enabled, hal_log, idt_loaded, pic_offset1,
                   pic_offset2, pic_imr, gc, returned, rx_fifo, scoreVars, devVars, dtbVars, shellCtl>>

---------------------------------------------------------------------------
(* kmain (main.c) *)

\* Mutant of kmain_steps: the interrupt controller before the CPU tables
kmain_steps_intc_first ==
    <<"serial_init", "hw_detect", "score", "intc_init", "cpu_init",
      "display_init", "input_init", "print_hw_info", "print_banner", "shell_run">>

\* The calls of kmain in program order
kmain_steps ==
    <<"serial_init", "hw_detect", "score", "cpu_init", "intc_init",
      "display_init", "input_init", "print_hw_info", "print_banner", "shell_run">>

InShell == Len(kmain_steps) + 1

\* kmain is about to make the call named step
KmainAt(step) ==
    /\ cpu = "run"
    /\ pc \in 1 .. Len(kmain_steps)
    /\ kmain_steps[pc] = step

\* The call returned: kmain moves to its next statement
KmainDone(step) ==
    /\ pc' = pc + 1
    /\ trace' = Append(trace, step)

\* Mutant of pl011_putchar: no test of the base pointer
pl011_putchar_unguarded(base, log) == log \cup {"uart_mmio"}

\* pl011_putchar: nothing without a base pointer, else poll UARTFR and write UARTDR
pl011_putchar(base, log) ==
    IF BytesIsZero(base) THEN log ELSE log \cup {"uart_mmio"}

\* pl011_getchar: '\0' at once without a base pointer, else poll UARTFR and read
\* UARTDR
pl011_getchar(base, log) ==
    IF BytesIsZero(base) THEN log ELSE log \cup {"uart_mmio"}

\* gic_enable_irq: nothing without a distributor pointer, else write ISENABLER
gic_enable_irq(dist, enabled, irq) ==
    IF BytesIsZero(dist) THEN enabled ELSE enabled \cup {irq}

\* gic_eoi: nothing without a CPU-interface pointer, else write GICC_EOIR
gic_eoi(cpuif, log) ==
    IF BytesIsZero(cpuif) THEN log ELSE log \cup {"gic_mmio"}

\* hal_serial_print / hal_display_print: pl011_putchar per character on arm64;
\* the COM1 port and the VGA buffer on x86_64
HalPrint(base, log) ==
    IF arch = "arm64" THEN pl011_putchar(base, log) ELSE log

\* hal_serial_init, then hal_serial_print("[noxiom] kernel started\n")
KmainSerialInit ==
    /\ KmainAt("serial_init")
    /\ KmainDone("serial_init")
    /\ \/ /\ arch = "x86_64"
          /\ UNCHANGED <<s_dtb, s_dtb_done, uart, hal_log>>
          /\ UNCHANGED dtb_parses
       \/ /\ arch = "arm64"
          /\ s_dtb' = dtb_init(s_dtb_done, s_dtb, g_dtb_addr, dtb_blob)
          /\ s_dtb_done' = TRUE
          /\ dtb_parses' = dtb_init_counted(s_dtb_done, dtb_parses)
          /\ uart' = IF ~BytesIsZero(s_dtb'.uart_base) THEN s_dtb'.uart_base ELSE uart
          /\ hal_log' =
                HalPrint(uart',
                         IF ~BytesIsZero(s_dtb'.uart_base)
                         THEN hal_log \cup {"pl011_init", "uart_mmio"}
                         ELSE hal_log)
    /\ UNCHANGED <<arch, cpu, g_hw_info, tier_printed, g_dtb_addr, dtb_blob, gicd,
                   gicc, gic_enabled, iflag, idt_loaded, pic_offset1, pic_offset2,
                   pic_imr, hw_irq_in_isr, exc_printed, kbVars, inputVars, scoreVars, ioVars,
                   dtbVars, shellVars>>

\* hal_hw_detect on arm64: copy the cached device tree result into the descriptor
hal_hw_detect_arm64(info, dtb) ==
    [info EXCEPT !.arch           = "arm64",
                 !.ram_bytes      = dtb.ram_size,
                 !.cpu_cores      = dtb.cpu_count,
                 !.uart_base      = dtb.uart_base,
                 !.intc_dist_base = dtb.gic_dist_base,
                 !.intc_base      = dtb.gic_cpu_base,
                 !.compat_str     = kstrncpy(dtb.uart_compat, 1, 127)]

\* hal_hw_detect
KmainHwDetect ==
    /\ KmainAt("hw_detect")
    /\ KmainDone("hw_detect")
    /\ \/ /\ arch = "x86_64"
          /\ \E ml \in CpuidMaxLeaf, eb \in CpuidEbxB, e1 \in CpuidEbx1,
                kl \in CmosKbLow, ke \in CmosKbExt :
                g_hw_info' = cpuid_detect(g_hw_info, ml, eb, e1, kl, ke)
          /\ UNCHANGED <<s_dtb, s_dtb_done>>
          /\ UNCHANGED dtb_parses
       \/ /\ arch = "arm64"
          /\ s_dtb' = dtb_init(s_dtb_done, s_dtb, g_dtb_addr, dtb_blob)
          /\ s_dtb_done' = TRUE
          /\ dtb_parses' = dtb_init_counted(s_dtb_done, dtb_parses)
          /\ g_hw_info' = hal_hw_detect_arm64(g_hw_info, s_dtb')
    /\ UNCHANGED <<arch, cpu, tier_printed, g_dtb_addr, dtb_blob, uart, gicd, gicc, gic_enabled, hal_log,
                   iflag, idt_loaded, pic_offset1, pic_offset2, pic_imr,
                   hw_irq_in_isr, exc_printed, kbVars, inputVars, scoreVars, ioVars, dtbVars, shellVars>>

\* g_hw_info.tier = hal_hw_score()
KmainScore ==
    /\ KmainAt("score")
    /\ KmainDone("score")
    /\ g_hw_info' = [g_hw_info EXCEPT !.tier = hal_hw_score(g_hw_info)]
    /\ hal_log' = HalPrint(uart, hal_log)
    /\ UNCHANGED <<arch, cpu, tier_printed, g_dtb_addr, dtb_blob, s_dtb, s_dtb_done,
                   uart, gicd, gicc, gic_enabled, iflag, idt_loaded, pic_offset1, pic_offset2, pic_imr,
                   hw_irq_in_isr, exc_printed, kbVars, inputVars, scoreVars, devVars, dtbVars, shellVars>>

\* hal_cpu_init.  x86_64: gdt_init, then idt_init installs gates 0..47 and
\* idt_load executes lidt and sti.  arm64: nothing.
KmainCpuInit ==
    /\ KmainAt("cpu_init")
    /\ KmainDone("cpu_init")
    /\ \/ /\ arch = "x86_64"
          /\ idt_loaded' = TRUE
          /\ iflag' = TRUE
       \/ /\ arch = "arm64"
          /\ UNCHANGED <<idt_loaded, iflag>>
    /\ hal_log' = HalPrint(uart, hal_log)
    /\ UNCHANGED <<arch, cpu, g_hw_info, tier_printed, g_dtb_addr, dtb_blob, s_dtb,
                   s_dtb_done, uart, gicd, gicc, gic_enabled, pic_offset1, pic_offset2, pic_imr,
                   hw_irq_in_isr, exc_printed, kbVars, inputVars, scoreVars, devVars, dtbVars, shellVars>>

GicIds == 0 .. 255

\* gic_init's loop over ICENABLER: i = 0, 32, .., 224 writes 0xFFFFFFFF to the
\* register at offset i / 8, which clear-enables the IDs i .. i + 31
gic_init_clear_enables(enabled) ==
    enabled \ UNION {{id \in GicIds : id \div 32 = (i \div 8) \div 4} :
                         i \in {k \in 0 .. 255 : k % 32 = 0}}

\* pic_init: save both mask registers, send ICW1..ICW4 with the offsets 0x20 /
\* 0x28, write the saved masks back; yields the masks after the call
pic_init(imr) ==
    LET mask1 == imr \cap (0 .. 7)
        mask2 == imr \cap (8 .. 15)
    IN  mask1 \cup mask2

\* hal_intc_init, then hal_serial_print("[noxiom] intc ok\n").  x86_64: pic_init.
\* arm64: gic_init when the DTB gave both bases.
KmainIntcInit ==
    /\ KmainAt("intc_init")
    /\ KmainDone("intc_init")
    /\ \/ /\ arch = "x86_64"
          /\ pic_offset1' = 32
          /\ pic_offset2' = 40
          /\ pic_imr' = pic_init(pic_imr)
          /\ UNCHANGED <<s_dtb, s_dtb_done, gicd, gicc, gic_enabled, hal_log>>
          /\ UNCHANGED dtb_parses
       \/ /\ arch = "arm64"
          /\ s_dtb' = dtb_init(s_dtb_done, s_dtb, g_dtb_addr, dtb_blob)
          /\ s_dtb_done' = TRUE
          /\ dtb_parses' = dtb_init_counted(s_dtb_done, dtb_parses)
          /\ IF ~BytesIsZero(s_dtb'.gic_dist_base) /\ ~BytesIsZero(s_dtb'.gic_cpu_base)
             THEN /\ gicd' = s_dtb'.gic_dist_base
                  /\ gicc' = s_dtb'.gic_cpu_base
                  /\ gic_enabled' = gic_init_clear_enables(gic_enabled)
                  /\ hal_log' = HalPrint(uart, hal_log \cup {"gic_init", "gic_mmio"})
             ELSE /\ UNCHANGED <<gicd, gicc, gic_enabled>>
                  /\ hal_log' = HalPrint(uart, hal_log)
          /\ UNCHANGED <<pic_offset1, pic_offset2, pic_imr>>
    /\ UNCHANGED <<arch, cpu, g_hw_info, tier_printed, g_dtb_addr, dtb_blob, uart,
                   iflag, idt_loaded, hw_irq_in_isr, exc_printed,
                   kbVars, inputVars, scoreVars, ioVars, dtbVars, shellVars>>

\* hal_display_init
KmainDisplayInit ==
    /\ KmainAt("display_init")
    /\ KmainDone("display_init")
    /\ hal_log' = HalPrint(uart, hal_log)
    /\ UNCHANGED <<arch, cpu, g_hw_info, tier_printed, g_dtb_addr, dtb_blob, s_dtb,
                   s_dtb_done, uart, gicd, gicc, gic_enabled, iflag, idt_loaded, pic_offset1,
                   pic_offset2, pic_imr, hw_irq_in_isr, exc_printed,
                   kbVars, inputVars, scoreVars, devVars, dtbVars, shellVars>>

\* hal_input_init.  x86_64: keyboard_init unmasks IRQ1.  arm64: nothing.
KmainInputInit ==
    /\ KmainAt("input_init")
    /\ KmainDone("input_init")
    /\ pic_imr' = IF arch = "x86_64" THEN pic_unmask(pic_imr, 1) ELSE pic_imr
    /\ hal_log' = HalPrint(uart, hal_log)
    /\ UNCHANGED <<arch, cpu, g_hw_info, tier_printed, g_dtb_addr, dtb_blob, s_dtb,
                   s_dtb_done, uart, gicd, gicc, gic_enabled, iflag, idt_loaded, pic_offset1,
                   pic_offset2, hw_irq_in_isr, exc_printed,
                   kbVars, inputVars, scoreVars, devVars, dtbVars, shellVars>>

\* print_hw_info: the switch on g_hw_info.tier
print_hw_info(tier) ==
    CASE tier = TIER_HIGH     -> "HIGH"
      [] tier = TIER_MID      -> "MID"
      [] tier = TIER_LOW      -> "LOW"
      [] tier = TIER_FALLBACK -> "FALLBACK"
      [] OTHER                -> "UNKNOWN"

KmainPrintHwInfo ==
    /\ KmainAt("print_hw_info")
    /\ KmainDone("print_hw_info")
    /\ tier_printed' = print_hw_info(g_hw_info.tier)
    /\ hal_log' = HalPrint(uart, hal_log)
    /\ UNCHANGED <<arch, cpu, g_hw_info, g_dtb_addr, dtb_blob, s_dtb,
                   s_dtb_done, uart, gicd, gicc, gic_enabled, iflag, idt_loaded, pic_offset1,
                   pic_offset2, pic_imr, hw_irq_in_isr, exc_printed,
                   kbVars, inputVars, scoreVars, devVars, dtbVars, shellVars>>

\* print_banner
KmainPrintBanner ==
    /\ KmainAt("print_banner")
    /\ KmainDone("print_banner")
    /\ hal_log' = HalPrint(uart, hal_log)
    /\ UNCHANGED <<arch, cpu, g_hw_info, tier_printed, g_dtb_addr, dtb_blob, s_dtb,
                   s_dtb_done, uart, gicd, gicc, gic_enabled, iflag, idt_loaded, pic_offset1,
                   pic_offset2, pic_imr, hw_irq_in_isr, exc_printed,
                   kbVars, inputVars, scoreVars, devVars, dtbVars, shellVars>>

\* shell_run is entered; it has no return statement
KmainShellRun ==
    /\ KmainAt("shell_run")
    /\ KmainDone("shell_run")
    /\ hal_log' = HalPrint(uart, hal_log)
    /\ UNCHANGED <<arch, cpu, g_hw_info, tier_printed, g_dtb_addr, dtb_blob, s_dtb,
                   s_dtb_done, uart, gicd, gicc, gic_enabled, iflag, idt_loaded, pic_offset1,
                   pic_offset2, pic_imr, hw_irq_in_isr, exc_printed,
                   kbVars, inputVars, scoreVars, devVars, dtbVars, shellVars>>

\* Mutant of hal_halt: no cli before the hlt loop
hal_halt_no_cli ==
    /\ iflag' = iflag
    /\ cpu' = "hal_halt"

\* hal_halt: mask interrupts, wait forever
hal_halt ==
    /\ iflag' = FALSE
    /\ cpu' = "hal_halt"

\* The shell dispatches the halt command: cmd_halt calls hal_halt
ShellCmdHalt ==
    /\ cpu = "run"
    /\ pc = InShell
    /\ hal_halt
    /\ hal_log' = HalPrint(uart, hal_log)
    /\ UNCHANGED <<arch, pc, trace, g_hw_info, tier_printed, g_dtb_addr, dtb_blob,
                   s_dtb, s_dtb_done, uart, gicd, gicc, gic_enabled, idt_loaded, pic_offset1,
                   pic_offset2, pic_imr, hw_irq_in_isr, exc_printed,
                   kbVars, inputVars, scoreVars, devVars, dtbVars, shellVars>>

\* gic_enable_irq's write to ISENABLER, as far as the log sees it
gic_touch(dist, log) == IF BytesIsZero(dist) THEN log ELSE log \cup {"gic_mmio"}

\* A HAL entry point is called once shell_run is entered: shell_run itself calls
\* hal_input_getchar and hal_display_putchar; hal_intc_unmask and
\* hal_intc_send_eoi are the entry points left to interrupt-driven code.
HalCallInShell ==
    /\ arch = "arm64"
    /\ cpu = "run"
    /\ pc = InShell
    /\ \E f \in {"input_getchar", "display_putchar", "intc_unmask", "intc_send_eoi"},
          irq \in {30, 33} :
          /\ hal_log' =
                {"hal_call_in_shell"} \cup
                    CASE f = "input_getchar"   -> pl011_getchar(uart, hal_log)
                      [] f = "display_putchar" -> pl011_putchar(uart, hal_log)
                      [] f = "intc_unmask"     -> gic_touch(gicd, hal_log)
                      [] f = "intc_send_eoi"   -> gic_eoi(gicc, hal_log)
          /\ gic_enabled' = IF f = "intc_unmask"
                            THEN gic_enable_irq(gicd, gic_enabled, irq)
                            ELSE gic_enabled
    /\ UNCHANGED <<arch, pc, trace, cpu, g_hw_info, tier_printed, g_dtb_addr,
                   dtb_blob, s_dtb, s_dtb_done, uart, gicd, gicc, iflag, idt_loaded,
                   pic_offset1, pic_offset2, pic_imr, hw_irq_in_isr, exc_printed,
                   kbVars, inputVars, scoreVars, devVars, dtbVars, shellVars>>

\* A hardware interrupt while kmain boots or the shell runs
BootIrq == \E irq \in IrqSources, sc \in Scancodes : HwIrq(irq, sc, MaxBootIrqs)

---------------------------------------------------------------------------
(* Initial states *)

KbInit ==
    /\ nirq = 0
    /\ kb_buf = [i \in 0 .. KB_BUF_SIZE - 1 |-> 0]
    /\ kb_head = 0
    /\ kb_tail = 0
    /\ shift_held = 0
    /\ accepted = <<>>
    /\ dropped = 0
    /\ sc_hist = <<>>

\* No interrupt requested, acknowledged or in service
IntcIdle ==
    /\ pic_irr = {}
    /\ pic_isr = {}
    /\ gic_pending = {}
    /\ gic_active = {}
    /\ in_irq = -1
    /\ eoi_calls = 0

\* vga_putchar not counted
VgaIdle == nput = 0

\* No handler entered, no stub running, the CRTC cursor registers never written
GateIdle ==
    /\ frames = <<>>
    /\ stub = [pc |-> 0]
    /\ crtc_cursor = -1
    /\ dtb_parses = (IF s_dtb_done THEN 1 ELSE 0)

InputIdle ==
    /\ gpc = "none"
    /\ gc = 0
    /\ returned = <<>>
    /\ rx_fifo = <<>>
    /\ raced = FALSE

ScoreIdle ==
    /\ descA = ZeroHwInfo
    /\ descB = ZeroHwInfo
    /\ tierA = -1
    /\ tierB = -1

DtbIdle ==
    /\ dtb_ret = -2
    /\ dtb_prev = ZeroDtb

\* Interrupt IDs the firmware may have left enabled in the GIC distributor
FirmwareGicEnabled == {{}, {27}, {27, 33, 255}}

\* What the memory at g_dtb_addr may hold when kmain starts
BootBlobs ==
    {BoardBlob(u, g) : u \in {"none", "pl011", "pl011_child"},
                       g \in {"none", "one_region", "two_regions"}}
        \cup {BoardBlob("pl011_second", "two_regions"), BadMagicBlob, ZeroedBlob}

\* kmain is entered with interrupts off (stage 2 executes cli), the 8259 pair as
\* the PC firmware programs it (offsets 0x08 / 0x70) and every global zero.
BootInit ==
    /\ arch \in {"x86_64", "arm64"}
    /\ pc = 1
    /\ trace = <<>>
    /\ cpu = "run"
    /\ g_hw_info = ZeroHwInfo
    /\ tier_printed = ""
    /\ s_dtb = ZeroDtb
    /\ s_dtb_done = FALSE
    /\ uart = Bytes(0, 0)
    /\ gicd = Bytes(0, 0)
    /\ gicc = Bytes(0, 0)
    /\ hal_log = {}
    /\ iflag = FALSE
    /\ idt_loaded = FALSE
    /\ pic_offset1 = 8
    /\ pic_offset2 = 112
    /\ hw_irq_in_isr = FALSE
    /\ exc_printed = -1
    /\ IF arch = "x86_64"
       THEN /\ pic_imr \in FirmwareImr
            /\ gic_enabled = {}
            /\ g_dtb_addr = 0
            /\ dtb_blob = ZeroedBlob
       ELSE /\ pic_imr = AllLines
            /\ gic_enabled \in FirmwareGicEnabled
            /\ \/ /\ g_dtb_addr = 0
                  /\ dtb_blob \in {ZeroedBlob, BoardBlob("pl011", "two_regions")}
               \/ /\ g_dtb_addr = 524288
                  /\ dtb_blob \in BootBlobs

Init == BootInit /\ KbInit /\ InputIdle /\ ScoreIdle /\ DtbIdle /\ ShellIdle /\ IntcIdle /\ VgaIdle /\ GateIdle

Next ==
    \/ KmainSerialInit
    \/ KmainHwDetect
    \/ KmainScore
    \/ KmainCpuInit
    \/ KmainIntcInit
    \/ KmainDisplayInit
    \/ KmainInputInit
    \/ KmainPrintHwInfo
    \/ KmainPrintBanner
    \/ KmainShellRun
    \/ ShellCmdHalt
    \/ HalCallInShell
    \/ BootIrq

Spec == Init /\ [][Next]_vars

\* The calls of kmain: straight-line code in which every call returns unless the
\* CPU is halted, so a call that can run does run
KmainStep ==
    \/ KmainSerialInit
    \/ KmainHwDetect
    \/ KmainScore
    \/ KmainCpuInit
    \/ KmainIntcInit
    \/ KmainDisplayInit
    \/ KmainInputInit
    \/ KmainPrintHwInfo
    \/ KmainPrintBanner
    \/ KmainShellRun

SpecBoot == Init /\ [][Next]_vars /\ WF_vars(KmainStep)

---------------------------------------------------------------------------
(* SpecScore: hal_hw_score over a pair of descriptors *)

RamSizes ==
    {Bytes(0, 0), Bytes(0, 1), MiB(64), Bytes(128 * 1024 - 1, 1023), MiB(128),
     Bytes(512 * 1024 - 1, 1023), MiB(512),
     Bytes(2 * 1024 * 1024 - 1, 1023), MiB(2048), MiB(8192)}

CoreCounts == 0 .. 5

Descriptors ==
    {[ZeroHwInfo EXCEPT !.cpu_cores = n, !.ram_bytes = r] :
        n \in CoreCounts, r \in RamSizes}

\* The boot variables of a machine that has not started kmain
BootParked ==
    /\ arch = "x86_64"
    /\ pc = 1
    /\ trace = <<>>
    /\ cpu = "run"
    /\ g_hw_info = ZeroHwInfo
    /\ tier_printed = ""
    /\ g_dtb_addr = 0
    /\ dtb_blob = ZeroedBlob
    /\ s_dtb = ZeroDtb
    /\ s_dtb_done = FALSE
    /\ uart = Bytes(0, 0)
    /\ gicd = Bytes(0, 0)
    /\ gicc = Bytes(0, 0)
    /\ gic_enabled = {}
    /\ hal_log = {}
    /\ iflag = FALSE
    /\ idt_loaded = FALSE
    /\ pic_offset1 = 8
    /\ pic_offset2 = 112
    /\ pic_imr = AllLines
    /\ hw_irq_in_isr = FALSE
    /\ exc_printed = -1

ScoreInit ==
    /\ descA \in Descriptors
    /\ descB \in Descriptors
    /\ tierA = -1
    /\ tierB = -1

\* hal_hw_score() with g_hw_info holding descA
ScoreA ==
    /\ tierA' = hal_hw_score(descA)
    /\ UNCHANGED <<descA, descB, tierB, bootVars, kbVars, inputVars, dtbVars, shellVars,
                   devVars>>

\* hal_hw_score() with g_hw_info holding descB
ScoreB ==
    /\ tierB' = hal_hw_score(descB)
    /\ UNCHANGED <<descA, descB, tierA, bootVars, kbVars, inputVars, dtbVars, shellVars,
                   devVars>>

InitScore == BootParked /\ KbInit /\ InputIdle /\ ScoreInit /\ DtbIdle /\ ShellIdle /\ IntcIdle /\ VgaIdle /\ GateIdle

NextScore == ScoreA \/ ScoreB

SpecScore == InitScore /\ [][NextScore]_vars

---------------------------------------------------------------------------
(* SpecDtb: dtb_parse over device tree blobs, then hal_hw_detect and scoring *)

\* A dtb_result_t left over from an earlier use
DirtyDtb ==
    [uart_base |-> U64(0, DevAddr.uart1), gic_dist_base |-> U64(0, DevAddr.gicd),
     gic_cpu_base |-> U64(0, DevAddr.gicc), ram_base |-> U64(0, 4096),
     ram_size |-> MiB(256), cpu_count |-> 7, uart_compat |-> STR_brcm_aux_uart]

\* The boot variables of an arm64 machine whose entry stub has stored the DTB
\* pointer and has not started kmain
InitDtb ==
    /\ arch = "arm64"
    /\ pc = 1
    /\ trace = <<>>
    /\ cpu = "run"
    /\ g_hw_info = ZeroHwInfo
    /\ tier_printed = ""
    /\ g_dtb_addr \in {0, 524288}
    /\ dtb_blob \in DtbBlobs
    /\ s_dtb \in {ZeroDtb, DirtyDtb}
    /\ s_dtb_done = FALSE
    /\ uart = Bytes(0, 0)
    /\ gicd = Bytes(0, 0)
    /\ gicc = Bytes(0, 0)
    /\ gic_enabled = {}
    /\ hal_log = {}
    /\ iflag = FALSE
    /\ idt_loaded = FALSE
    /\ pic_offset1 = 8
    /\ pic_offset2 = 112
    /\ pic_imr = AllLines
    /\ hw_irq_in_isr = FALSE
    /\ exc_printed = -1
    /\ dtb_ret = -2
    /\ dtb_prev = s_dtb
    /\ KbInit /\ InputIdle /\ ScoreIdle /\ ShellIdle
    /\ IntcIdle /\ VgaIdle /\ GateIdle

\* dtb_parse(g_dtb_addr, &s_dtb)
DtbParse ==
    /\ ~s_dtb_done
    /\ LET r == dtb_parse(g_dtb_addr, dtb_blob, s_dtb)
       IN  /\ s_dtb' = r.out
           /\ dtb_ret' = r.ret
    /\ s_dtb_done' = TRUE
    /\ UNCHANGED <<arch, pc, trace, cpu, g_hw_info, tier_printed, g_dtb_addr, dtb_blob,
                   uart, gicd, gicc, gic_enabled, hal_log, iflag, idt_loaded, pic_offset1, pic_offset2, pic_imr,
                   hw_irq_in_isr, exc_printed, dtb_prev, kbVars, inputVars, scoreVars, devVars, shellVars>>

\* hal_hw_detect(); g_hw_info.tier = hal_hw_score();
DtbDetectAndScore ==
    /\ s_dtb_done
    /\ trace = <<>>
    /\ g_hw_info' = LET d == hal_hw_detect_arm64(g_hw_info, s_dtb)
                    IN  [d EXCEPT !.tier = hal_hw_score(d)]
    /\ trace' = <<"hw_detect", "score">>
    /\ UNCHANGED <<arch, pc, cpu, tier_printed, g_dtb_addr, dtb_blob, s_dtb, s_dtb_done,
                   uart, gicd, gicc, gic_enabled, hal_log, iflag, idt_loaded, pic_offset1, pic_offset2, pic_imr,
                   hw_irq_in_isr, exc_printed, dtbVars, shellVars, kbVars, inputVars, scoreVars, devVars>>

NextDtb == DtbParse \/ DtbDetectAndScore

SpecDtb == InitDtb /\ [][NextDtb]_vars

---------------------------------------------------------------------------
(* SpecInput: hal_input_getchar in the running shell, against the keyboard *)
(* interrupt (x86_64) or the PL011 receiver (arm64)                        *)

\* Bytes the model lets the serial line deliver: CR, 'a', DEL
UartBytes == {13, 97, 127}

\* The boot variables once kmain has entered shell_run
Booted ==
    /\ arch \in {"x86_64", "arm64"}
    /\ pc = InShell
    /\ trace = kmain_steps
    /\ cpu = "run"
    /\ gicd = Bytes(0, 0)
    /\ gicc = Bytes(0, 0)
    /\ gic_enabled = {}
    /\ hw_irq_in_isr = FALSE
    /\ exc_printed = -1
    /\ IF arch = "x86_64"
       THEN /\ g_dtb_addr = 0
            /\ dtb_blob = ZeroedBlob
            /\ s_dtb = ZeroDtb
            /\ s_dtb_done = FALSE
            /\ uart = Bytes(0, 0)
            /\ iflag = TRUE
            /\ idt_loaded = TRUE
            /\ pic_offset1 = 32
            /\ pic_offset2 = 40
            /\ pic_imr \in {pic_unmask(AllLines, 1), pic_unmask(AllLines \ {0}, 1)}
            /\ g_hw_info =
                  LET d == cpuid_detect(ZeroHwInfo, 11, 4, 0, 15360, 7936)
                  IN  [d EXCEPT !.tier = hal_hw_score(d)]
       ELSE /\ g_dtb_addr = 524288
            /\ dtb_blob \in {BoardBlob(u, "none") : u \in {"none", "pl011"}}
            /\ s_dtb = dtb_init(FALSE, ZeroDtb, g_dtb_addr, dtb_blob)
            /\ s_dtb_done = TRUE
            /\ uart = s_dtb.uart_base
            /\ iflag = FALSE
            /\ idt_loaded = FALSE
            /\ pic_offset1 = 8
            /\ pic_offset2 = 112
            /\ pic_imr = AllLines
            /\ g_hw_info =
                  LET d == hal_hw_detect_arm64(ZeroHwInfo, s_dtb)
                  IN  [d EXCEPT !.tier = hal_hw_score(d)]
    /\ tier_printed = print_hw_info(g_hw_info.tier)
    /\ hal_log = IF BytesIsZero(uart) THEN {} ELSE {"pl011_init", "uart_mmio"}

InputInit ==
    /\ gpc = "call"
    /\ gc = 0
    /\ returned = <<>>
    /\ rx_fifo = <<>>
    /\ raced = FALSE

\* shell_run calls hal_input_getchar, which calls the back-end's getchar
HalInputGetchar ==
    /\ gpc = "call"
    /\ cpu = "run"
    /\ Len(returned) < MaxGetchar
    /\ gpc' = IF arch = "x86_64" THEN "check" ELSE "guard"
    /\ UNCHANGED <<gc, returned, rx_fifo, raced, bootVars, kbVars, scoreVars, devVars, dtbVars, shellVars>>

\* keyboard_getchar: while (kb_head == kb_tail)
KeyboardGetcharCheck ==
    /\ gpc = "check"
    /\ gpc' = IF kb_head = kb_tail THEN "hlt" ELSE "read"
    /\ UNCHANGED <<gc, returned, rx_fifo, raced, bootVars, kbVars, scoreVars, devVars, dtbVars, shellVars>>

\* keyboard_getchar: the hlt instruction stops the CPU until an interrupt
KeyboardGetcharHlt ==
    /\ gpc = "hlt"
    /\ gpc' = "halted"
    /\ UNCHANGED <<gc, returned, rx_fifo, raced, bootVars, kbVars, scoreVars, devVars, dtbVars, shellVars>>

\* keyboard_getchar: char c = kb_buf[kb_tail]
KeyboardGetcharRead ==
    /\ gpc = "read"
    /\ gc' = kb_buf[kb_tail]
    /\ gpc' = "advance"
    /\ UNCHANGED <<returned, rx_fifo, raced, bootVars, kbVars, scoreVars, devVars, dtbVars, shellVars>>

\* keyboard_getchar: kb_tail = (kb_tail + 1) % KB_BUF_SIZE
KeyboardGetcharAdvance ==
    /\ gpc = "advance"
    /\ kb_tail' = (kb_tail + 1) % KB_BUF_SIZE
    /\ gpc' = "ret"
    /\ UNCHANGED <<gc, returned, rx_fifo, raced, bootVars, scoreVars, devVars, dtbVars, shellVars,
                   nirq, kb_buf, kb_head, shift_held, accepted, dropped>>

\* pl011_getchar: if (!uart) return '\0'
Pl011GetcharGuard ==
    /\ gpc = "guard"
    /\ IF BytesIsZero(uart)
       THEN /\ gc' = 0
            /\ gpc' = "ret"
       ELSE /\ gc' = gc
            /\ gpc' = "poll"
    /\ UNCHANGED <<returned, rx_fifo, raced, bootVars, kbVars, scoreVars, devVars, dtbVars, shellVars>>

\* pl011_getchar: while (UARTFR & FR_RXFE) is left once the FIFO holds a byte
Pl011GetcharPoll ==
    /\ gpc = "poll"
    /\ rx_fifo # <<>>
    /\ gpc' = "read_dr"
    /\ UNCHANGED <<gc, returned, rx_fifo, raced, bootVars, kbVars, scoreVars, devVars, dtbVars, shellVars>>

\* pl011_getchar: (char)(UARTDR & 0xFF) pops the FIFO
Pl011GetcharReadDr ==
    /\ gpc = "read_dr"
    /\ gc' = Head(rx_fifo) % 256
    /\ rx_fifo' = Tail(rx_fifo)
    /\ accepted' = Append(accepted, Head(rx_fifo) % 256)
    /\ gpc' = "ret"
    /\ UNCHANGED <<returned, raced, bootVars, scoreVars, devVars, dtbVars, shellVars,
                   nirq, kb_buf, kb_head, kb_tail, shift_held, dropped>>

\* return c: the byte reaches shell_run
GetcharReturn ==
    /\ gpc = "ret"
    /\ returned' = Append(returned, gc)
    /\ gpc' = "call"
    /\ UNCHANGED <<gc, rx_fifo, raced, bootVars, kbVars, scoreVars, devVars, dtbVars, shellVars>>

\* A hardware interrupt while the shell runs
ShellIrq == \E irq \in IrqSources, sc \in Scancodes : HwIrq(irq, sc, MaxKbdIrqs)

\* The serial line delivers byte b into the PL011 receive FIFO
UartRx ==
    /\ arch = "arm64"
    /\ ~BytesIsZero(uart)
    /\ nirq < MaxKbdIrqs
    /\ Len(rx_fifo) < MaxFifo
    /\ \E b \in UartBytes : rx_fifo' = Append(rx_fifo, b)
    /\ nirq' = nirq + 1
    /\ UNCHANGED <<gpc, gc, returned, raced, bootVars, scoreVars, devVars, dtbVars, shellVars,
                   kb_buf, kb_head, kb_tail, shift_held, accepted, dropped>>

InputNext ==
    \/ HalInputGetchar
    \/ KeyboardGetcharCheck
    \/ KeyboardGetcharHlt
    \/ KeyboardGetcharRead
    \/ KeyboardGetcharAdvance
    \/ Pl011GetcharGuard
    \/ Pl011GetcharPoll
    \/ Pl011GetcharReadDr
    \/ GetcharReturn
    \/ ShellIrq
    \/ UartRx

\* shell_run has just been entered
InitInput == Booted /\ KbInit /\ InputInit /\ ScoreIdle /\ DtbIdle /\ ShellIdle /\ IntcIdle /\ VgaIdle /\ GateIdle

SpecInput == InitInput /\ [][InputNext]_vars

---------------------------------------------------------------------------
(* SpecShell: shell_run reading characters on the x86_64 VGA console *)

\* "\n\nType 'help' for a list of commands.\n\n"
STR_banner_tail == <<10, 10, 84, 121, 112, 101, 32, 39, 104, 101, 108, 112, 39, 32, 102, 111, 114, 32, 97, 32, 108, 105, 115, 116, 32, 111, 102, 32, 99, 111, 109, 109, 97, 110, 100, 115, 46, 10, 10>>

\* The screen as print_banner leaves it, cursor in column 0: with free rows
\* below it (as on the 25-row screen), or on the last row after the banner has
\* scrolled
EntryScreens == {vga_print(vga_init, <<10>>), vga_print(vga_init, STR_banner_tail)}

\* Lines the user types and commits with Enter
CommandLines ==
    {
        <<>>,   \* ""
        <<32>>,   \* " "
        <<32, 32>>,   \* "  "
        <<104, 101, 108, 112>>,   \* "help"
        <<99, 108, 101, 97, 114>>,   \* "clear"
        <<118, 101, 114, 115, 105, 111, 110>>,   \* "version"
        <<104, 97, 108, 116>>,   \* "halt"
        <<101, 99, 104, 111>>,   \* "echo"
        <<101, 99, 104, 111, 32, 97>>,   \* "echo a"
        <<101, 99, 104, 111, 32, 97, 32, 98>>,   \* "echo a b"
        <<101, 99, 104, 111, 32, 32, 97, 32, 32, 98>>,   \* "echo  a  b"
        <<32, 101, 99, 104, 111, 32, 97>>,   \* " echo a"
        <<101, 99, 104, 111, 32, 97, 32>>,   \* "echo a "
        <<101, 99, 104, 111, 32, 97, 32, 98, 32, 99>>,   \* "echo a b c"
        <<72, 101, 108, 112>>,   \* "Help"
        <<72, 65, 76, 84>>,   \* "HALT"
        <<104, 101, 108>>,   \* "hel"
        <<104, 101, 108, 112, 120>>,   \* "helpx"
        <<104, 97, 108, 116, 32, 120>>,   \* "halt x"
        <<101, 99, 104, 111, 97>>,   \* "echoa"
        <<120>>,   \* "x"
        <<97, 98, 32, 99, 100>>,   \* "ab cd"
        <<32, 97, 98>>,   \* " ab"
        <<32, 104, 97, 108, 116>>,   \* " halt"
        <<99, 108, 101, 97, 114, 32, 97>>,   \* "clear a"
        <<97, 32, 98, 32, 99, 32, 100>>   \* "a b c d"
    }

\* Lines the user types and goes on editing
TypedLines ==
    {
        <<97, 32, 97, 32, 98>>,   \* "a a b"
        <<97, 32, 97, 32, 97, 32, 98>>,   \* "a a a b"
        <<101, 99, 104, 111>>,   \* "echo"
        <<104, 97, 108>>   \* "hal"
    }

\* A line that fills the buffer
FullLine == [i \in 1 .. CMD_BUF - 1 |-> 97]

\* What the user types before typing freely
Scripts ==
    {l \o <<10>> : l \in {l \in CommandLines : Len(l) < CMD_BUF}}
        \cup {l \in TypedLines : Len(l) < CMD_BUF}
        \cup {<<>>, FullLine}

InitShell ==
    /\ Booted
    /\ arch = "x86_64"
    /\ pic_imr = pic_unmask(AllLines, 1)
    /\ KbInit /\ InputIdle /\ ScoreIdle /\ DtbIdle
    /\ shell_pc = "none"
    /\ line = [i \in 0 .. CMD_BUF - 1 |-> 0]
    /\ line_len = 0
    /\ \E d \in EntryScreens :
          /\ vga_buf = d.buf
          /\ cursor_x = d.x
          /\ cursor_y = d.y
          /\ cur_color = d.color
    /\ shown = <<>>
    /\ nscroll = 0
    /\ prompt_at = 0
    /\ nprompt = 0
    /\ committed = <<>>
    /\ nul_at = -1
    /\ last_argc = -1
    /\ last_argv = <<>>
    /\ last_cmd = "none"
    /\ last_key = -1
    /\ nkeys = 0
    /\ ndrop = 0
    /\ script \in Scripts
    /\ nfree = 0
    /\ IntcIdle /\ VgaIdle /\ GateIdle

\* shell_run up to its loop: line_len = 0; prompt();
ShellStart ==
    /\ cpu = "run"
    /\ shell_pc = "none"
    /\ shell_pc' = "loop"
    /\ line_len' = 0
    /\ \E d \in {prompt(Display)} : PromptedDisplayBecomes(d)
    /\ nprompt' = nprompt + 1
    /\ UNCHANGED <<line, committed, nul_at, last_argc, last_argv, last_cmd, last_key,
                   nkeys, ndrop, script, nfree,
                   bootVars, kbVars, inputVars, scoreVars, devVars, dtbVars>>

\* One turn of shell_run's loop for the character c that hal_input_getchar returned
ShellKey(c) ==
    /\ cpu = "run"
    /\ shell_pc = "loop"
    /\ nkeys' = nkeys + 1
    /\ last_key' = c
    /\ IF c = 10
       THEN \E r \in {dispatch([line EXCEPT ![line_len] = 0], vga_putchar(Display, 10))} :
               /\ committed' = [i \in 1 .. line_len |-> line[i - 1]]
               /\ nul_at' = line_len
               /\ line' = r.buf
               /\ last_argc' = r.argc
               /\ last_argv' = r.argv
               /\ last_cmd' = r.cmd
               /\ IF r.cmd = "halt"
                  THEN /\ hal_halt
                       /\ shell_pc' = "halted"
                       /\ DisplayBecomes(r.d)
                       /\ UNCHANGED <<line_len, nprompt>>
                  ELSE /\ line_len' = 0
                       /\ \E d \in {prompt(r.d)} : PromptedDisplayBecomes(d)
                       /\ nprompt' = nprompt + 1
                       /\ UNCHANGED <<shell_pc, iflag, cpu>>
               /\ UNCHANGED ndrop
       ELSE IF c = 8
       THEN /\ IF line_len > 0
               THEN /\ line_len' = line_len - 1
                    /\ DisplayBecomes(vga_putchar(Display, 8))
               ELSE /\ DisplayBecomes(Display)
                    /\ UNCHANGED line_len
            /\ UNCHANGED <<line, committed, nul_at, last_argc, last_argv, last_cmd, ndrop,
                           nprompt, shell_pc, iflag, cpu>>
       ELSE IF line_has_room(line_len)
       THEN /\ line' = [line EXCEPT ![line_len] = c]
            /\ line_len' = line_len + 1
            /\ DisplayBecomes(vga_putchar(Display, c))
            /\ UNCHANGED <<committed, nul_at, last_argc, last_argv, last_cmd, ndrop,
                           nprompt, shell_pc, iflag, cpu>>
       ELSE /\ ndrop' = ndrop + 1
            /\ DisplayBecomes(Display)
            /\ UNCHANGED <<line, line_len, committed, nul_at, last_argc, last_argv,
                           last_cmd, nprompt, shell_pc, iflag, cpu>>
    /\ UNCHANGED <<arch, pc, trace, g_hw_info, tier_printed, g_dtb_addr, dtb_blob,
                   s_dtb, s_dtb_done, uart, gicd, gicc, gic_enabled, hal_log, idt_loaded,
                   pic_offset1, pic_offset2, pic_imr, hw_irq_in_isr, exc_printed,
                   kbVars, inputVars, scoreVars, devVars, dtbVars>>

\* The user types the next character of the script
ShellScripted ==
    /\ script # <<>>
    /\ ShellKey(Head(script))
    /\ script' = Tail(script)
    /\ UNCHANGED nfree

\* The script has run out and the user types any character
ShellFree ==
    /\ script = <<>>
    /\ nfree < MaxKeys
    /\ \E c \in Keys : ShellKey(c)
    /\ nfree' = nfree + 1
    /\ UNCHANGED script

\* A keyboard interrupt for the make code of 'a' is raised while the shell
\* runs, once in a behaviour.  (What the shell reads is the script; SpecInput
\* has the path from the ring to hal_input_getchar.)
ShellKbdIrq == HwIrq(1, 30, 1)

\* Vectors of the CPU exceptions the model raises: divide error and page fault
ExcVectors == {0, 14}

\* The running code raises CPU exception v: gate v leads through
\* isr_common_stub to isr_handler
CpuException ==
    \E v \in ExcVectors :
        /\ arch = "x86_64"
        /\ idt_loaded
        /\ cpu = "run"
        /\ isr_handler(v)
        /\ UNCHANGED <<arch, pc, trace, g_hw_info, tier_printed, g_dtb_addr, dtb_blob,
                       s_dtb, s_dtb_done, uart, gicd, gicc, gic_enabled, hal_log,
                       idt_loaded, pic_offset1, pic_offset2, pic_imr, hw_irq_in_isr,
                       kbVars, inputVars, scoreVars, devVars, dtbVars, shellCtl>>

NextShell == ShellStart \/ ShellScripted \/ ShellFree \/ ShellKbdIrq \/ CpuException

SpecShell == InitShell /\ [][NextShell]_vars

---------------------------------------------------------------------------
(* Claims about the boot sequence and tier scoring *)

IsPrefix(s, t) == Len(s) <= Len(t) /\ SubSeq(t, 1, Len(s)) = s

\* kmain has assigned g_hw_info.tier
Scored == \E i \in 1 .. Len(trace) : trace[i] = "score"

\* The order of HAL steps the design fixes
C1_Order ==
    <<"serial_init", "hw_detect", "score", "cpu_init", "intc_init",
      "display_init", "input_init", "print_hw_info", "print_banner", "shell_run">>

\* C1: on either architecture the steps kmain has completed are always an
\* initial part of the fixed order serial init, hw_detect, tier scoring, cpu_init,
\* intc_init, display_init, input_init, print of CPU model + tier, banner,
\* shell_run (none skipped, repeated or reordered), the step kmain is at is the one
\* right after those completed, and hal_halt is reached only once shell_run has
\* been entered.
C1_BootOrder ==
    /\ IsPrefix(trace, C1_Order)
    /\ pc = Len(trace) + 1
    /\ cpu = "hal_halt" => trace = C1_Order

C1_Witness == trace = C1_Order /\ cpu = "hal_halt" /\ tier_printed # ""

\* C2: on x86_64 no hardware IRQ is ever delivered on a vector outside 32..47
\* and handled by isr_handler: whenever the interrupt flag is set the 8259 pair
\* has been remapped to 0x20 / 0x28.
C2_IrqsOnlyOnVectors32To47 ==
    arch = "x86_64" => ~hw_irq_in_isr

C5_ScoreMonotone ==
    (/\ tierA # -1
     /\ tierB # -1
     /\ descA.cpu_cores >= descB.cpu_cores
     /\ BytesLE(descB.ram_bytes, descA.ram_bytes))
        => tierA >= tierB

C5_Witness ==
    /\ tierA = TIER_HIGH
    /\ tierB = TIER_MID
    /\ descA.cpu_cores > descB.cpu_cores
    /\ descB.cpu_cores > 2
    /\ BytesLE(descB.ram_bytes, descA.ram_bytes)

---------------------------------------------------------------------------
(* Claims about the input path *)

\* Unread bytes in the ring
RingCount == (kb_head - kb_tail + KB_BUF_SIZE) % KB_BUF_SIZE

\* The unread bytes, oldest first
RingSeq == [i \in 1 .. RingCount |-> kb_buf[(kb_tail + i - 1) % KB_BUF_SIZE]]

\* The byte keyboard_getchar has consumed and not yet handed to its caller
InFlight == IF gpc = "ret" THEN <<gc>> ELSE <<>>

\* C6: the keyboard ring is race-free.  With keyboard_irq_handler running to
\* completion between any two steps of keyboard_getchar, the bytes returned so
\* far, then the byte being returned, then the unread ring contents are exactly
\* the bytes buf_push accepted, in order (so the returned bytes are a prefix of
\* the accepted ones: nothing lost, duplicated or reordered); the byte read from
\* kb_buf[kb_tail] is still the oldest unread byte when kb_tail is updated; kb_head
\* changes only in an interrupt and kb_tail only in the consumer's update step.
C6_RingRaceFree ==
    /\ [](arch = "x86_64" =>
            /\ accepted = returned \o InFlight \o RingSeq
            /\ IsPrefix(returned, accepted)
            /\ gpc = "advance" => (RingCount > 0 /\ gc = kb_buf[kb_tail]))
    /\ [][/\ kb_head' # kb_head => nirq' = nirq + 1
          /\ kb_tail' # kb_tail => (gpc = "advance" /\ nirq' = nirq)]_vars

C6_Witness ==
    /\ arch = "x86_64"
    /\ raced
    /\ Len(returned) >= 2
    /\ returned = accepted

\* C7: the overflow policy is drop-newest.  A keyboard interrupt that finds the
\* ring holding KB_BUF_SIZE-1 unread bytes leaves kb_buf, kb_head and kb_tail (and
\* so the unread bytes and their order) unchanged; the ring never holds more than
\* KB_BUF_SIZE-1 bytes, a full ring holds the last KB_BUF_SIZE-1 accepted bytes in
\* order, and kb_head and kb_tail stay in 0 .. KB_BUF_SIZE-1.
C7_DropNewest ==
    /\ [](/\ kb_head \in 0 .. KB_BUF_SIZE - 1
          /\ kb_tail \in 0 .. KB_BUF_SIZE - 1
          /\ RingCount <= KB_BUF_SIZE - 1
          /\ Len(accepted) - Len(returned) - Len(InFlight) <= KB_BUF_SIZE - 1
          /\ (arch = "x86_64" /\ RingCount = KB_BUF_SIZE - 1) =>
                RingSeq = SubSeq(accepted, Len(accepted) - KB_BUF_SIZE + 2,
                                 Len(accepted)))
    /\ [][(RingCount = KB_BUF_SIZE - 1 /\ nirq' # nirq) =>
            /\ kb_buf' = kb_buf
            /\ kb_head' = kb_head
            /\ kb_tail' = kb_tail
            /\ accepted' = accepted]_vars

C7_Witness ==
    /\ arch = "x86_64"
    /\ dropped > 0
    /\ nirq = KB_BUF_SIZE
    /\ Len(accepted) = KB_BUF_SIZE - 1
    /\ returned = accepted

\* C8: hal_input_getchar never returns unless an input byte was received: on
\* both back-ends each byte handed to the shell is one taken from the ring or
\* read from the UART, so there are never more returns than received bytes.
C8_ReturnsOnlyReceivedBytes ==
    Len(returned) <= Len(accepted)

\* C9: the consumer of the keyboard ring is never halted in hlt while the ring
\* holds an unread byte.
C9_NeverHaltedWhileRingNonEmpty ==
    ~(arch = "x86_64" /\ gpc = "halted" /\ kb_head # kb_tail)

\* C10: every byte hal_input_getchar returns is printable (32..126), newline
\* (10) or backspace (8), on either back-end.
C10_OnlyLineOrientedBytes ==
    \A i \in 1 .. Len(returned) : returned[i] \in (32 .. 126) \cup {10, 8}


---------------------------------------------------------------------------
(* Claims about the device tree parser.  The tree is read here from the    *)
(* structure block by position, independently of dtb_parse's flags.        *)

\* The blob dtb_parse was given has been parsed
DtbParsed == dtb_ret # -2

\* Positions of the FDT_BEGIN_NODE tokens of a structure block
NodesOf(tokens) == {i \in 1 .. Len(tokens) : tokens[i].tok = FDT_BEGIN_NODE}

\* Nesting level of the token at i: 0 for the root's FDT_BEGIN_NODE
LevelAt(tokens, i) ==
    Cardinality({j \in 1 .. i - 1 : tokens[j].tok = FDT_BEGIN_NODE})
        - Cardinality({j \in 1 .. i - 1 : tokens[j].tok = FDT_END_NODE})

\* The node that directly contains node i (0 for the root)
ParentOf(tokens, i) ==
    LET up == {j \in NodesOf(tokens) :
                  j < i /\ LevelAt(tokens, j) = LevelAt(tokens, i) - 1}
    IN  IF up = {} THEN 0 ELSE CHOOSE j \in up : \A k \in up : k <= j

\* Positions of the properties of node i: they follow its name, before any child
PropsOf(tokens, i) ==
    {j \in i + 1 .. Len(tokens) :
        /\ tokens[j].tok = FDT_PROP
        /\ \A k \in i + 1 .. j : tokens[k].tok \in {FDT_PROP, FDT_NOP}}

\* The NUL-delimited entries of a string-list property value
Entries(data) ==
    {SubSeq(data, ab[1], ab[2] - 1) :
        ab \in {p \in (1 .. Len(data)) \X (1 .. Len(data)) :
                   /\ p[1] <= p[2]
                   /\ (p[1] = 1 \/ data[p[1] - 1] = 0)
                   /\ data[p[2]] = 0
                   /\ \A k \in p[1] .. p[2] - 1 : data[k] # 0}}

\* The entries of node i's compatible property
CompatOf(tokens, i) ==
    UNION {Entries(tokens[j].data) :
              j \in {k \in PropsOf(tokens, i) : tokens[k].name = STR_compatible}}

\* Node i has a reg property; its cells
HasReg(tokens, i) == \E j \in PropsOf(tokens, i) : tokens[j].name = STR_reg

RegOf(tokens, i) ==
    tokens[CHOOSE j \in PropsOf(tokens, i) : tokens[j].name = STR_reg].data

\* The value of a root property holding one cell
RootCell(tokens, name) ==
    tokens[CHOOSE j \in PropsOf(tokens, 1) : tokens[j].name = name].data[1]

\* The address that starts at cell k of a reg value, ac cells wide
AddrAt(reg, k, ac) == IF ac = 2 THEN U64(reg[k], reg[k + 1]) ELSE U64(0, reg[k])

\* The first node, in structure-block order, that has a reg property and a
\* compatible entry in the set given (0 when there is none)
FirstDevice(tokens, allow) ==
    LET hits == {i \in NodesOf(tokens) :
                    HasReg(tokens, i) /\ CompatOf(tokens, i) \cap allow # {}}
    IN  IF hits = {} THEN 0 ELSE CHOOSE i \in hits : \A k \in hits : i <= k

UartAllowlist == {STR_arm_pl011, STR_brcm_aux_uart}
GicAllowlist  == {STR_arm_cortex_a15_gic, STR_arm_gic_400, STR_arm_gic_v3}

\* The children of /cpus whose name starts with cpu@
CpuNodes(tokens) ==
    {i \in NodesOf(tokens) :
        /\ Len(tokens[i].name) >= 4
        /\ SubSeq(tokens[i].name, 1, 4) = STR_cpu_at
        /\ ParentOf(tokens, i) # 0
        /\ tokens[ParentOf(tokens, i)].name = STR_cpus
        /\ ParentOf(tokens, ParentOf(tokens, i)) = 1}

\* C11: for a well-formed device tree whose /cpus node has N children named
\* cpu@*, dtb_parse returns cpu_count = N, and hal_hw_detect copies N into
\* cpu_cores (4 such nodes and 1 GiB of RAM score MID).
C11_CpuCountIsNumberOfCpuNodes ==
    (DtbParsed /\ dtb_ret = 0) =>
        /\ s_dtb.cpu_count = Cardinality(CpuNodes(dtb_blob.struct))
        /\ trace # <<>> =>
              /\ g_hw_info.cpu_cores = Cardinality(CpuNodes(dtb_blob.struct))
              /\ (g_hw_info.cpu_cores = 4 /\ g_hw_info.ram_bytes = MiB(1024))
                    => g_hw_info.tier = TIER_MID

\* C12: for a well-formed device tree, dtb_parse sets uart_base to the first reg
\* address of the first node, in structure-block order, that has a reg property
\* and a compatible entry arm,pl011 or brcm,bcm2835-aux-uart, whether or not that
\* node has child nodes; later UART nodes do not overwrite it.
C12_UartBaseIsFirstUartNode ==
    (DtbParsed /\ dtb_ret = 0) =>
        LET t == dtb_blob.struct
            n == FirstDevice(t, UartAllowlist)
        IN  n # 0 =>
              s_dtb.uart_base = AddrAt(RegOf(t, n), 1, RootCell(t, STR_address_cells))

\* C13: dtb_parse called with address 0, or on a blob whose first word is not
\* 0xD00DFEED, returns -1 and leaves every field of the result zero, whatever the
\* result held before the call; nothing of the blob beyond the magic matters.
C13_FailureZeroesResult ==
    (DtbParsed /\ (g_dtb_addr = 0 \/ dtb_blob.magic # FDT_MAGIC)) =>
        /\ dtb_ret = -1
        /\ s_dtb = ZeroDtb
        /\ [ret |-> dtb_ret, out |-> s_dtb]
              = dtb_parse(g_dtb_addr, [magic |-> dtb_blob.magic, struct |-> <<>>],
                          dtb_prev)

C13_Witness ==
    /\ DtbParsed
    /\ g_dtb_addr # 0
    /\ dtb_blob.magic # FDT_MAGIC
    /\ Len(dtb_blob.struct) > 0
    /\ dtb_prev = DirtyDtb
    /\ dtb_ret = -1
    /\ s_dtb = ZeroDtb

\* C14: uart_base (gic_dist_base) is non-zero only if some node's compatible list
\* has an entry equal, as a whole NUL-delimited entry, to an allowlisted UART
\* (GIC) string; a tree whose compatible values name no such IP block yields
\* uart_base = 0 and gic_dist_base = 0.
C14_ExactCompatibleEntriesOnly ==
    DtbParsed =>
        LET t == dtb_blob.struct
        IN  /\ ~BytesIsZero(s_dtb.uart_base) =>
                  \E i \in NodesOf(t) : CompatOf(t, i) \cap UartAllowlist # {}
            /\ ~BytesIsZero(s_dtb.gic_dist_base) =>
                  \E i \in NodesOf(t) : CompatOf(t, i) \cap GicAllowlist # {}

\* A parsed tree whose UART and GIC nodes carry only near misses of the
\* allowlisted strings (longer, shorter, or with a leading character)
C14_Witness ==
    /\ DtbParsed
    /\ dtb_ret = 0
    /\ \E i \in NodesOf(dtb_blob.struct) :
          /\ HasReg(dtb_blob.struct, i)
          /\ CompatOf(dtb_blob.struct, i) =
                Entries(CompatUartNearMiss)
    /\ \E i \in NodesOf(dtb_blob.struct) :
          /\ HasReg(dtb_blob.struct, i)
          /\ CompatOf(dtb_blob.struct, i) = Entries(CompatGicNearMiss)
    /\ \A i \in NodesOf(dtb_blob.struct) :
          CompatOf(dtb_blob.struct, i) \cap (UartAllowlist \cup GicAllowlist) = {}
    /\ BytesIsZero(s_dtb.uart_base)
    /\ BytesIsZero(s_dtb.gic_dist_base)

\* C15: for the first GIC-compatible node with a reg property, root
\* #address-cells and #size-cells being 1 or 2: with at least two regions
\* gic_dist_base is the address of the first region and gic_cpu_base the address
\* of the second, (addr_cells + size_cells) * 4 bytes into reg; with fewer than
\* two regions gic_cpu_base stays 0.
C15_GicBasesFromFirstTwoRegions ==
    (DtbParsed /\ dtb_ret = 0) =>
        LET t   == dtb_blob.struct
            n   == FirstDevice(t, GicAllowlist)
            ac  == RootCell(t, STR_address_cells)
            sc  == RootCell(t, STR_size_cells)
            reg == RegOf(t, n)
        IN  n # 0 =>
              IF Len(reg) >= 2 * (ac + sc)
              THEN /\ s_dtb.gic_dist_base = AddrAt(reg, 1, ac)
                   /\ s_dtb.gic_cpu_base = AddrAt(reg, ac + sc + 1, ac)
              ELSE BytesIsZero(s_dtb.gic_cpu_base)

---------------------------------------------------------------------------
(* Claims about booting without a device tree and about interrupt masks *)

\* An arm64 boot whose entry stub saw no device tree, or one with a wrong magic
NoDeviceTree ==
    /\ arch = "arm64"
    /\ (g_dtb_addr = 0 \/ dtb_blob.magic # FDT_MAGIC)

\* What holds throughout such a boot
C16_Degraded ==
    /\ BytesIsZero(uart) /\ BytesIsZero(gicd) /\ BytesIsZero(gicc)
    /\ hal_log \cap {"pl011_init", "gic_init", "uart_mmio", "gic_mmio"} = {}
    /\ (\E i \in 1 .. Len(trace) : trace[i] = "hw_detect") =>
          /\ BytesIsZero(g_hw_info.uart_base)
          /\ BytesIsZero(g_hw_info.intc_base)
          /\ BytesIsZero(g_hw_info.intc_dist_base)
    /\ Scored => g_hw_info.tier = TIER_FALLBACK
    /\ tier_printed \in {"", "FALLBACK"}

\* C16: an arm64 boot with g_dtb_addr = 0 or a wrong magic still reaches
\* shell_run; uart_base, intc_base and intc_dist_base are 0, pl011_init and
\* gic_init are never called, no HAL call ever touches UART or GIC registers, and
\* the tier is FALLBACK.
C16_BootsWithoutDeviceTree ==
    /\ [](NoDeviceTree => C16_Degraded)
    /\ (NoDeviceTree ~> (pc = InShell /\ trace = kmain_steps))

C16_Witness ==
    /\ NoDeviceTree
    /\ g_dtb_addr # 0
    /\ Len(dtb_blob.struct) > 0
    /\ pc = InShell
    /\ hal_log = {"hal_call_in_shell"}
    /\ tier_printed = "FALLBACK"

\* hal_intc_init has returned
IntcInitDone == \E i \in 1 .. Len(trace) : trace[i] = "intc_init"

\* C17: once hal_intc_init has returned every interrupt line is masked, whatever
\* the controller's masks were before (x86_64: the 16 lines of the 8259 pair;
\* arm64: the 256 GIC IDs); a line is unmasked only by a later explicit unmask
\* (IRQ1 by keyboard_init).
C17_AllLinesMaskedAfterIntcInit ==
    IntcInitDone =>
        IF arch = "x86_64"
        THEN pic_imr = AllLines \ (IF \E i \in 1 .. Len(trace) : trace[i] = "input_init"
                                   THEN {1} ELSE {})
        ELSE "hal_call_in_shell" \notin hal_log => gic_enabled = {}

---------------------------------------------------------------------------
(* Shell claims *)

\* shell_run is in its loop, between two characters (no exception has stopped it)
ShellReading == shell_pc = "loop" /\ cpu = "run"

\* The step is one turn of shell_run's loop for an ordinary character (neither
\* newline nor backspace)
OrdinaryKeyStep == nkeys' = nkeys + 1 /\ last_key' \notin {8, 10}

\* C18: in every reachable state of shell_run, 0 <= line_len <= CMD_BUF - 1 (255
\* in the source); when line_len = CMD_BUF - 1 a further character that is
\* neither newline nor backspace is dropped, leaving line, line_len and the
\* display unchanged; and the NUL written at commit is at an index <= CMD_BUF - 1.
C18_LineBufferBound ==
    /\ [](/\ 0 <= line_len
          /\ line_len <= CMD_BUF - 1
          /\ nul_at <= CMD_BUF - 1)
    /\ [][(line_len = CMD_BUF - 1 /\ OrdinaryKeyStep)
             => /\ line' = line
                /\ line_len' = line_len
                /\ vga_buf' = vga_buf
                /\ cursor_x' = cursor_x
                /\ cursor_y' = cursor_y]_vars

\* A character was dropped on a full line, and the line was then committed with
\* its NUL in the last slot of the buffer
C18_Witness ==
    /\ ndrop > 0
    /\ nul_at = CMD_BUF - 1
    /\ Len(committed) = CMD_BUF - 1
    /\ last_key = 10

\* The screen cells from the end of the prompt on hold line[0 .. line_len) and
\* nothing else
ScreenShowsLine ==
    /\ \A i \in 0 .. line_len - 1 :
          prompt_at + i \in VgaCells /\ CellChar(vga_buf[prompt_at + i]) = line[i]
    /\ \A j \in VgaCells : j >= prompt_at + line_len => CellChar(vga_buf[j]) = 32

\* C19: after any sequence of typed characters and backspaces on the x86_64 VGA
\* back-end, the characters shown on screen after the prompt are exactly
\* line[0 .. line_len).
C19_ScreenShowsLine == ShellReading => ScreenShowsLine

\* C19, weaker reading: the cells after the prompt start with line[0 .. line_len)
C19_ScreenStartsWithLine ==
    ShellReading =>
        \A i \in 0 .. line_len - 1 :
            prompt_at + i \in VgaCells /\ CellChar(vga_buf[prompt_at + i]) = line[i]

\* C19, second half: a backspace with line_len = 0 changes neither buffer nor
\* display.
C19_BackspaceOnEmptyLine ==
    [][(line_len = 0 /\ nkeys' = nkeys + 1 /\ last_key' = 8)
          => /\ line' = line
             /\ line_len' = line_len
             /\ vga_buf' = vga_buf
             /\ cursor_x' = cursor_x
             /\ cursor_y' = cursor_y]_vars

\* s has no leading or trailing space and only single-space separators
SingleSpaced(s) ==
    /\ s # <<>>
    /\ s[1] # 32
    /\ s[Len(s)] # 32
    /\ \A i \in 1 .. Len(s) - 1 : ~(s[i] = 32 /\ s[i + 1] = 32)

\* C20: for every committed line without leading or trailing space and with
\* only single-space separators, whatever the number of tokens, joining
\* argv[0 .. argc-1] returned by parse with single spaces reproduces the line.
C20_TokenizerRoundTrip ==
    (last_key = 10 /\ last_argc >= 0 /\ SingleSpaced(committed))
        => JoinArgs(line, last_argv, 1) = committed

\* C20 restricted to lines of at most MAX_ARGS tokens
C20_RoundTripUpToMaxArgs ==
    (/\ last_key = 10
     /\ last_argc >= 0
     /\ SingleSpaced(committed)
     /\ Cardinality({i \in 1 .. Len(committed) : committed[i] = 32}) < MAX_ARGS)
        => JoinArgs(line, last_argv, 1) = committed

---------------------------------------------------------------------------
(* Shell command claims *)

RECURSIVE TokensFrom(_, _)
\* The maximal runs of non-space characters of s from position i on, in order
TokensFrom(s, i) ==
    IF i > Len(s) THEN <<>>
    ELSE IF s[i] = 32 THEN TokensFrom(s, i + 1)
    ELSE LET e == CHOOSE j \in i .. Len(s) :
                      /\ \A k \in i .. j : s[k] # 32
                      /\ (j = Len(s) \/ s[j + 1] = 32)
         IN  <<SubSeq(s, i, e)>> \o TokensFrom(s, e + 1)

\* The tokens the user typed on the line
Tokens(s) == TokensFrom(s, 1)

RECURSIVE JoinTokens(_)
\* The tokens joined by single spaces
JoinTokens(ts) ==
    IF ts = <<>> THEN <<>>
    ELSE IF Len(ts) = 1 THEN ts[1]
    ELSE ts[1] \o <<32>> \o JoinTokens(Tail(ts))

\* "noxiom> "
PromptText == STR_noxiom \o STR_prompt_tail

\* The last character handled committed a line, and nothing has printed since
Committed == last_key = 10 /\ exc_printed = -1

\* C21: for a committed line 'echo t1 ... tn' (any n >= 0, any number of spaces
\* between tokens) the display receives exactly t1 ' ' t2 ... tn '\n' between
\* the newline that echoes Enter and the next prompt.
C21_EchoPrintsArguments ==
    (Committed /\ Tokens(committed) # <<>> /\ Head(Tokens(committed)) = STR_echo)
        => shown = <<10>> \o JoinTokens(Tail(Tokens(committed))) \o <<10>> \o PromptText

\* C21 restricted to lines of at most MAX_ARGS tokens, echo included
C21_EchoUpToMaxArgs ==
    (/\ Committed
     /\ Tokens(committed) # <<>>
     /\ Head(Tokens(committed)) = STR_echo
     /\ Len(Tokens(committed)) <= MAX_ARGS)
        => shown = <<10>> \o JoinTokens(Tail(Tokens(committed))) \o <<10>> \o PromptText

\* C22: dispatching an empty line, or a line of spaces only, writes nothing to
\* the display and runs no command; the shell then only reprints the prompt,
\* with line_len = 0.
C22_BlankLineOnlyReprompts ==
    (Committed /\ Tokens(committed) = <<>>)
        => /\ shown = <<10>> \o PromptText
           /\ last_cmd = "none"
           /\ line_len = 0
           /\ shell_pc = "loop"

\* A line of two spaces has been committed: parse ran and found no token
C22_Witness ==
    /\ Committed
    /\ committed = <<32, 32>>
    /\ shown = <<10>> \o PromptText
    /\ last_argc = 0

\* The first token of the committed line
Arg0 == Head(Tokens(committed))

CommandNames == {STR_help, STR_clear, STR_echo, STR_version, STR_halt}

\* The name of a command as last_cmd records it
CommandOf(name) ==
    IF name = STR_help THEN "help"
    ELSE IF name = STR_clear THEN "clear"
    ELSE IF name = STR_echo THEN "echo"
    ELSE IF name = STR_version THEN "version"
    ELSE "halt"

\* C23: the command is selected by an exact, case-sensitive match of the first
\* token against help, clear, echo, version, halt; for any other first token the
\* shell prints exactly "Unknown command: " + token + newline, runs no command
\* and reprompts.
C23_ExactCommandMatch ==
    (last_key = 10 /\ Tokens(committed) # <<>>)
        => IF Arg0 \in CommandNames
           THEN last_cmd = CommandOf(Arg0)
           ELSE /\ last_cmd = "unknown"
                /\ shell_pc = "loop"
                /\ line_len = 0
                /\ exc_printed = -1 =>
                      shown = <<10>> \o STR_unknown_command \o Arg0 \o <<10>> \o PromptText

\* "HALT" was committed, reported as unknown, and the shell went on
C23_Witness ==
    /\ Committed
    /\ committed = <<72, 65, 76, 84>>
    /\ last_cmd = "unknown"
    /\ shown = <<10>> \o STR_unknown_command \o committed \o <<10>> \o PromptText
    /\ cpu = "run"

\* C24: after the shell dispatches halt, "System halted." has been printed,
\* interrupts are masked and the CPU is in hal_halt for good: no further
\* character is consumed, no prompt is printed, no display output is produced
\* and no interrupt handler runs.
C24_HaltIsFinal ==
    /\ [](shell_pc = "halted"
             => /\ ~iflag
                /\ cpu = "hal_halt"
                /\ last_cmd = "halt"
                /\ shown = <<10>> \o STR_system_halted)
    /\ [][shell_pc = "halted"
             => UNCHANGED <<shellCtl, vgaVars, kbVars, inputVars, cpu, iflag>>]_vars

\* halt was dispatched while the keyboard ring held a byte, and with more
\* characters typed after it
C24_Witness ==
    /\ shell_pc = "halted"
    /\ committed = STR_halt \o <<32, 120>>
    /\ kb_head # kb_tail
    /\ nprompt = 1

\* Number of places where t occurs in s
Occurrences(s, t) ==
    Cardinality({i \in 1 .. Len(s) - Len(t) + 1 : SubSeq(s, i, i + Len(t) - 1) = t})

\* s ends with t
EndsWith(s, t) == Len(s) >= Len(t) /\ SubSeq(s, Len(s) - Len(t) + 1, Len(s)) = t

\* The committed line s runs halt
IsHaltLine(s) == Tokens(s) # <<>> /\ Head(Tokens(s)) = STR_halt

\* C25: after every committed line whose command is not halt the prompt is
\* printed exactly once, last, and line_len is 0 before the next character is
\* read; the prompt is printed once at shell start and at no other time.
C25_PromptAfterEveryDispatch ==
    [][IF nkeys' = nkeys + 1 /\ last_key' = 10 /\ ~IsHaltLine(committed')
       THEN /\ nprompt' = nprompt + 1
            /\ Occurrences(shown', PromptText) = 1
            /\ EndsWith(shown', PromptText)
            /\ line_len' = 0
       ELSE IF shell_pc = "none" /\ shell_pc' = "loop"
       THEN /\ nprompt' = nprompt + 1
            /\ shown' = PromptText
            /\ line_len' = 0
       ELSE /\ nprompt' = nprompt
            /\ shown' = shown \/ Occurrences(shown', PromptText) = 0]_vars

\* The prompt has been printed at start and after an unknown command and an
\* empty line
C25_Witness ==
    /\ nprompt = 3
    /\ Committed
    /\ committed = <<>>
    /\ nkeys = 3
    /\ shown = <<10>> \o PromptText

\* C27: once a CPU exception is taken on x86_64, isr_handler prints the name of
\* its vector and the machine halts: the interrupted code never runs again, no
\* interrupt handler runs and nothing more is printed.
C27_ExceptionHalts ==
    /\ [](exc_printed # -1
             => /\ ~iflag
                /\ cpu = "exc_halt"
                /\ shown = STR_kernel_exception \o exception_names[exc_printed + 1]
                              \o STR_stars_nl)
    /\ [][exc_printed # -1 => UNCHANGED vars]_vars

\* A page fault was taken while the shell had a line half typed, characters
\* still to come and a keyboard interrupt not yet raised
C27_Witness ==
    /\ exc_printed = 14
    /\ shell_pc = "loop"
    /\ line_len > 0
    /\ script # <<>>
    /\ nirq = 0

---------------------------------------------------------------------------
(* SpecKbd: the PS/2 keyboard delivering scancodes to keyboard_irq_handler *)

MaxScancodes == 5

\* Scancodes the keyboard sends: left Ctrl (no table entry), 'a', both shift
\* keys, their releases and the release of 'a'
KbdScancodes == {29, 30, SC_LSHIFT, SC_RSHIFT, SC_LSHIFT_REL, SC_RSHIFT_REL, 158}

\* A key is pressed or released with nothing else going on: shell_run has not
\* started to read
InitKbd ==
    /\ Booted
    /\ arch = "x86_64"
    /\ pic_imr = pic_unmask(AllLines, 1)
    /\ KbInit /\ InputIdle /\ ScoreIdle /\ DtbIdle /\ ShellIdle
    /\ IntcIdle /\ VgaIdle /\ GateIdle

\* IRQ 1 is taken: irq_common_stub calls irq_handler(33), which reads sc from
\* port 0x60 in keyboard_irq_handler
KbdIrq ==
    \E sc \in KbdScancodes :
        /\ Len(sc_hist) < MaxScancodes
        /\ iflag /\ idt_loaded /\ cpu = "run"
        /\ 1 \notin pic_imr
        /\ irq_handler(PicVector(1), sc)
        /\ sc_hist' = Append(sc_hist, sc)
        /\ UNCHANGED <<arch, pc, trace, g_hw_info, tier_printed, g_dtb_addr, dtb_blob,
                       s_dtb, s_dtb_done, uart, gicd, gicc, gic_enabled, hal_log,
                       idt_loaded, pic_offset1, pic_offset2, pic_imr, hw_irq_in_isr,
                       inputVars, scoreVars, intcVars, nput, gateVars, dtb_parses, dtbVars, shellCtl>>

NextKbd == KbdIrq

SpecKbd == InitKbd /\ [][NextKbd]_vars

---------------------------------------------------------------------------
(* PS/2 translation claims *)

\* The bytes a scancode sequence should enqueue: a shift key is held from its
\* make code to its break code; every other make code gives the entry of the
\* shifted table if a shift key is held and of the plain table if not, and
\* nothing if that entry is 0
RECURSIVE TranslateFrom(_, _, _, _)
TranslateFrom(scs, i, lheld, rheld) ==
    IF i > Len(scs) THEN <<>>
    ELSE LET sc == scs[i]
         IN  IF sc = SC_LSHIFT THEN TranslateFrom(scs, i + 1, TRUE, rheld)
             ELSE IF sc = SC_RSHIFT THEN TranslateFrom(scs, i + 1, lheld, TRUE)
             ELSE IF sc = SC_LSHIFT_REL THEN TranslateFrom(scs, i + 1, FALSE, rheld)
             ELSE IF sc = SC_RSHIFT_REL THEN TranslateFrom(scs, i + 1, lheld, FALSE)
             ELSE IF sc >= 128 THEN TranslateFrom(scs, i + 1, lheld, rheld)
             ELSE LET c == IF lheld \/ rheld THEN sc_table_shift[sc + 1]
                                             ELSE sc_table[sc + 1]
                  IN  (IF c # 0 THEN <<c>> ELSE <<>>)
                          \o TranslateFrom(scs, i + 1, lheld, rheld)

Translate(scs) == TranslateFrom(scs, 1, FALSE, FALSE)

\* Codes of both shift keys occur in the sequence
BothShifts(scs) ==
    /\ \E i \in 1 .. Len(scs) : scs[i] \in {SC_LSHIFT, SC_LSHIFT_REL}
    /\ \E i \in 1 .. Len(scs) : scs[i] \in {SC_RSHIFT, SC_RSHIFT_REL}

\* C26: PS/2 translation.  As long as the ring has had room for every byte,
\* the bytes enqueued so far are the translation of the scancodes read so far:
\* shift make and break codes and key releases enqueue nothing, every other
\* make code enqueues its entry of the shifted table iff a shift key is held at
\* that moment, and nothing if the entry is 0.
C26_Translation ==
    dropped = 0 => accepted = Translate(sc_hist)

\* The same for sequences that use one of the two shift keys only
C26_OneShiftKey ==
    (dropped = 0 /\ ~BothShifts(sc_hist)) => accepted = Translate(sc_hist)

\* LShift, 'a', LShift release leave exactly 'A' in the ring
C26_ShiftAExample ==
    sc_hist = <<SC_LSHIFT, 30, SC_LSHIFT_REL>> => (RingSeq = <<65>> /\ shift_held = 0)

\* Both shift keys went down, one was released and a letter was typed
C26_TwoShiftKeys ==
    /\ sc_hist = <<SC_LSHIFT, SC_RSHIFT, SC_RSHIFT_REL, 30>>
    /\ accepted = <<97>>

---------------------------------------------------------------------------
(* Hardware descriptor claims *)

\* kmain has made the call named step
KmainPast(step) == \E i \in 1 .. Len(trace) : trace[i] = step

\* C28: the hardware descriptor is written once and then read-only.  A step
\* changes g_hw_info only if it is kmain's call of hal_hw_detect or kmain's
\* assignment of the tier; the assignment changes the tier field only, to a
\* tier that a second call of hal_hw_score on the descriptor as it then stands
\* returns again; and once the tier is assigned no step (the remaining init
\* calls, IRQ and exception handlers, the shell) changes any field.
C28_DescriptorWrittenOnce ==
    [][/\ g_hw_info' # g_hw_info => (KmainAt("hw_detect") \/ KmainAt("score"))
       /\ KmainAt("score") =>
             /\ g_hw_info' = [g_hw_info EXCEPT !.tier = g_hw_info'.tier]
             /\ g_hw_info'.tier = hal_hw_score(g_hw_info)
             /\ hal_hw_score(g_hw_info') = g_hw_info'.tier
       /\ KmainPast("score") => g_hw_info' = g_hw_info]_vars

\* The shell is running on a scored descriptor and a keyboard interrupt has
\* been handled
C28_Witness ==
    /\ pc = InShell
    /\ KmainPast("score")
    /\ g_hw_info.tier = TIER_MID
    /\ g_hw_info.tier = hal_hw_score(g_hw_info)
    /\ nirq > 0

\* The shell, its commands and the handlers that run under it leave the
\* descriptor alone
C28_ShellLeavesDescriptor == [][g_hw_info' = g_hw_info]_vars

---------------------------------------------------------------------------
(* SpecEoi: interrupts acknowledged and ended through hal_intc_send_eoi *)

EoiCalls == 2

\* Interrupt IDs the modelled GIC devices raise: the non-secure physical timer
\* and the PL011
GicSources == {30, 33}

\* The interrupt controller as hal_intc_send_eoi finds it
Intc ==
    [imr |-> pic_imr, irr |-> pic_irr, isr |-> pic_isr,
     enabled |-> gic_enabled, pending |-> gic_pending, active |-> gic_active]

\* A non-specific EOI (OCW2 = 0x20) to one 8259 whose lines are ls: the
\* in-service line of highest priority is reset, none if none is in service
NonSpecificEoi(isr, ls) ==
    IF isr \cap ls = {} THEN isr
    ELSE isr \ {CHOOSE l \in isr \cap ls : \A m \in isr \cap ls : l <= m}

\* Mutant of pic_send_eoi: 0x20 written to the data ports, where it is OCW1
pic_send_eoi_data_port(c, irq) ==
    [c EXCEPT !.imr = IF irq >= 8 THEN {5, 13} ELSE (@ \cap (8 .. 15)) \cup {5}]

\* pic_send_eoi: 0x20 to the slave's command port for lines 8..15, then 0x20 to
\* the master's
pic_send_eoi(c, irq) ==
    LET slave == IF irq >= 8 THEN NonSpecificEoi(c.isr, 8 .. 15) ELSE c.isr
    IN  [c EXCEPT !.isr = NonSpecificEoi(slave, 0 .. 7)]

\* gic_ack: 1023 without a CPU-interface pointer, else the read of GICC_IAR,
\* which makes the pending enabled interrupt of lowest ID active
gic_ack(cpuif, c) ==
    LET ready == c.pending \cap c.enabled
    IN  IF BytesIsZero(cpuif) \/ ready = {} THEN [c |-> c, id |-> 1023]
        ELSE LET id == CHOOSE i \in ready : \A j \in ready : i <= j
             IN  [c  |-> [c EXCEPT !.pending = @ \ {id}, !.active = @ \cup {id}],
                  id |-> id]

\* gic_eoi on the controller: nothing without a CPU-interface pointer, else the
\* write of irq to GICC_EOIR, which deactivates that interrupt
gic_eoi_write(cpuif, c, irq) ==
    IF BytesIsZero(cpuif) THEN c ELSE [c EXCEPT !.active = @ \ {irq}]

\* hal_intc_send_eoi: pic_send_eoi((uint8_t)irq) on x86_64, gic_eoi(irq) on arm64
hal_intc_send_eoi(c, irq) ==
    IF arch = "x86_64" THEN pic_send_eoi(c, irq % 256) ELSE gic_eoi_write(gicc, c, irq)

IntcBecomes(c) ==
    /\ pic_imr' = c.imr
    /\ pic_irr' = c.irr
    /\ pic_isr' = c.isr
    /\ gic_enabled' = c.enabled
    /\ gic_pending' = c.pending
    /\ gic_active' = c.active

\* The line the 8259 pair presents to the CPU: requested, not masked (a slave
\* line also needs the cascade line 2 unmasked), highest priority first
\* (0, 1, 8..15, 3..7)
PicRank(l) == IF l < 8 THEN 8 * l ELSE 16 + (l - 8)

PicReady ==
    {l \in pic_irr : l \notin pic_imr /\ (l >= 8 => 2 \notin pic_imr)}

\* Everything SpecEoi leaves alone
EoiFrame ==
    UNCHANGED <<arch, pc, trace, cpu, g_hw_info, tier_printed, g_dtb_addr, dtb_blob,
                s_dtb, s_dtb_done, uart, gicd, gicc, hal_log, iflag, idt_loaded,
                pic_offset1, pic_offset2, hw_irq_in_isr, exc_printed,
                kbVars, inputVars, scoreVars, sc_hist, nput, gateVars, dtb_parses, dtbVars, shellVars>>

\* The board: the 8259 pair with the masks the firmware left, or a GIC found in
\* the device tree with the timer and the UART interrupt enabled
InitEoi ==
    /\ \/ /\ Booted
          /\ arch = "x86_64"
       \/ /\ arch = "arm64"
          /\ pc = InShell
          /\ trace = kmain_steps
          /\ cpu = "run"
          /\ g_dtb_addr = 524288
          /\ dtb_blob = BoardBlob("pl011", "two_regions")
          /\ s_dtb = dtb_init(FALSE, ZeroDtb, g_dtb_addr, dtb_blob)
          /\ s_dtb_done = TRUE
          /\ uart = s_dtb.uart_base
          /\ gicd = s_dtb.gic_dist_base
          /\ gicc = s_dtb.gic_cpu_base
          /\ iflag = FALSE
          /\ idt_loaded = FALSE
          /\ pic_offset1 = 8
          /\ pic_offset2 = 112
          /\ pic_imr = AllLines
          /\ hw_irq_in_isr = FALSE
          /\ exc_printed = -1
          /\ g_hw_info =
                LET d == hal_hw_detect_arm64(ZeroHwInfo, s_dtb)
                IN  [d EXCEPT !.tier = hal_hw_score(d)]
          /\ tier_printed = print_hw_info(g_hw_info.tier)
          /\ hal_log = {"pl011_init", "uart_mmio", "gic_init", "gic_mmio"}
          /\ gic_enabled = {}
    /\ KbInit /\ InputIdle /\ ScoreIdle /\ DtbIdle /\ ShellIdle /\ IntcIdle /\ VgaIdle /\ GateIdle

\* hal_intc_unmask(irq): pic_unmask on x86_64, gic_enable_irq on arm64
EoiUnmask ==
    /\ in_irq = -1
    /\ \E irq \in IF arch = "x86_64" THEN IrqSources \cup {2} ELSE GicSources :
          IF arch = "x86_64"
          THEN /\ irq \in pic_imr
               /\ pic_imr' = pic_unmask(pic_imr, irq)
               /\ UNCHANGED gic_enabled
          ELSE /\ irq \notin gic_enabled
               /\ gic_enabled' = gic_enable_irq(gicd, gic_enabled, irq)
               /\ UNCHANGED pic_imr
    /\ UNCHANGED intcVars
    /\ EoiFrame

\* A device raises its interrupt line
EoiRaise ==
    /\ IF arch = "x86_64"
       THEN /\ \E l \in IrqSources : l \notin pic_irr /\ pic_irr' = pic_irr \cup {l}
            /\ UNCHANGED gic_pending
       ELSE /\ \E id \in GicSources :
                  id \notin gic_pending \cup gic_active /\ gic_pending' = gic_pending \cup {id}
            /\ UNCHANGED pic_irr
    /\ UNCHANGED <<pic_imr, gic_enabled, pic_isr, gic_active, in_irq, eoi_calls>>
    /\ EoiFrame

\* The CPU takes an interrupt while no handler runs.  x86_64: the interrupt
\* acknowledge cycle moves the line from request to service, together with the
\* cascade line 2 for a slave line, and the interrupt gate clears IF until
\* iretq.  arm64: the handler calls gic_ack.
EoiTake ==
    /\ in_irq = -1
    /\ cpu = "run"
    /\ IF arch = "x86_64"
       THEN /\ iflag /\ idt_loaded
            /\ PicReady # {}
            /\ LET l == CHOOSE r \in PicReady : \A m \in PicReady : PicRank(r) <= PicRank(m)
               IN  /\ pic_irr' = pic_irr \ {l}
                   /\ pic_isr' = pic_isr \cup {l} \cup (IF l >= 8 THEN {2} ELSE {})
                   /\ in_irq' = l
            /\ UNCHANGED <<gic_pending, gic_active>>
       ELSE /\ LET a == gic_ack(gicc, Intc)
               IN  /\ a.id # 1023
                   /\ gic_pending' = a.c.pending
                   /\ gic_active' = a.c.active
                   /\ in_irq' = a.id
            /\ UNCHANGED <<pic_irr, pic_isr>>
    /\ eoi_calls' = 0
    /\ UNCHANGED <<pic_imr, gic_enabled>>
    /\ EoiFrame

\* The running handler calls hal_intc_send_eoi for its interrupt
EoiSend ==
    /\ in_irq # -1
    /\ eoi_calls < EoiCalls
    /\ IntcBecomes(hal_intc_send_eoi(Intc, in_irq))
    /\ eoi_calls' = eoi_calls + 1
    /\ UNCHANGED in_irq
    /\ EoiFrame

\* The handler returns (iretq / eret) after at least one EOI
EoiReturn ==
    /\ in_irq # -1
    /\ eoi_calls >= 1
    /\ in_irq' = -1
    /\ eoi_calls' = 0
    /\ UNCHANGED <<pic_imr, gic_enabled, pic_irr, pic_isr, gic_pending, gic_active>>
    /\ EoiFrame

NextEoi == EoiUnmask \/ EoiRaise \/ EoiTake \/ EoiSend \/ EoiReturn

SpecEoi == InitEoi /\ [][NextEoi]_vars

---------------------------------------------------------------------------
(* End-of-interrupt claims *)

\* The in-service state the EOI for irq is there to end
EoiOwn(irq) ==
    IF arch = "x86_64" THEN {irq} \cup (IF irq >= 8 THEN {2} ELSE {}) ELSE {irq}

\* The interrupts hal_intc_send_eoi may be called for: the one being handled,
\* any while no handler runs
EoiArgs ==
    IF in_irq # -1 THEN {in_irq}
    ELSE IF arch = "x86_64" THEN IrqSources ELSE GicSources

\* C29: send_eoi is idempotent-safe.  In every state, with at most one
\* interrupt in service (interrupt gates, no nesting), a second call of
\* hal_intc_send_eoi(irq) right after the first leaves the controller as the
\* first left it; the call changes no mask or enable register, withdraws no
\* pending request and ends no in-service interrupt other than irq; and a
\* handler's repeated call changes nothing.
C29_EoiIdempotent ==
    [][/\ \A irq \in EoiArgs :
             LET once  == hal_intc_send_eoi(Intc, irq)
                 twice == hal_intc_send_eoi(once, irq)
             IN  /\ twice = once
                 /\ once.imr = pic_imr /\ once.enabled = gic_enabled
                 /\ once.irr = pic_irr /\ once.pending = gic_pending
                 /\ (pic_isr \ EoiOwn(irq)) \subseteq once.isr
                 /\ (gic_active \ EoiOwn(irq)) \subseteq once.active
       /\ (eoi_calls' = eoi_calls + 1 /\ eoi_calls >= 1) => Intc' = Intc]_vars

\* A handler for slave line 8 has sent its EOI twice while the keyboard's
\* request was waiting
C29_Witness ==
    /\ arch = "x86_64"
    /\ in_irq = 8
    /\ eoi_calls = 2
    /\ pic_isr = {}
    /\ 1 \in pic_irr /\ 1 \notin pic_imr

\* The same on the GIC, the timer's interrupt pending during the UART's handler
C29_WitnessGic ==
    /\ arch = "arm64"
    /\ in_irq = 33
    /\ eoi_calls = 2
    /\ gic_active = {}
    /\ 30 \in gic_pending /\ 30 \in gic_enabled

---------------------------------------------------------------------------
(* SpecVga: vga_putchar on a screen that holds text *)

MaxPutchars == 2

\* The characters given to vga_putchar: backspace, tab, newline, carriage
\* return, space and 'a'
VgaChars == {8, 9, 10, 13, 32, 97}

\* Yellow on black, the attribute of the help title
Yellow == HAL_COLOR(HAL_COLOR_YELLOW, HAL_COLOR_BLACK)

\* A screen on which every cell holds a different letter, in alternating
\* attributes
PatternScreen ==
    [i \in VgaCells |-> vga_entry(65 + i, IF i % 2 = 0 THEN Grey ELSE Yellow)]

\* Text on the screen, the cursor in any cell, either attribute current
InitVga ==
    /\ Booted
    /\ arch = "x86_64"
    /\ pic_imr = pic_unmask(AllLines, 1)
    /\ KbInit /\ InputIdle /\ ScoreIdle /\ DtbIdle /\ IntcIdle /\ VgaIdle
    /\ frames = <<>>
    /\ stub = [pc |-> 0]
    /\ dtb_parses = 0
    /\ shell_pc = "none"
    /\ line = [i \in 0 .. CMD_BUF - 1 |-> 0]
    /\ line_len = 0
    /\ vga_buf = PatternScreen
    /\ cursor_x \in 0 .. VGA_WIDTH - 1
    /\ cursor_y \in 0 .. VGA_HEIGHT - 1
    /\ cur_color \in {Grey, Yellow}
    /\ crtc_cursor = update_cursor(Display)
    /\ shown = <<>>
    /\ nscroll = 0
    /\ prompt_at = 0
    /\ nprompt = 0
    /\ committed = <<>>
    /\ nul_at = -1
    /\ last_argc = -1
    /\ last_argv = <<>>
    /\ last_cmd = "none"
    /\ last_key = -1
    /\ nkeys = 0
    /\ ndrop = 0
    /\ script = <<>>
    /\ nfree = 0

\* hal_display_putchar(c): vga_putchar, whose last statement is update_cursor()
VgaPutchar ==
    /\ nput < MaxPutchars
    /\ \E c \in VgaChars :
          LET d == vga_putchar(Display, c)
          IN  /\ DisplayBecomes(d)
              /\ crtc_cursor' = update_cursor(d)
    /\ nput' = nput + 1
    /\ UNCHANGED <<bootVars, kbVars, inputVars, scoreVars, sc_hist, intcVars, frames, stub,
                   dtb_parses, dtbVars, shellCtl>>

\* hal_display_clear(): vga_clear, whose last statement is update_cursor()
VgaClear ==
    /\ LET d == vga_clear(Display)
       IN  /\ DisplayBecomes(d)
           /\ crtc_cursor' = update_cursor(d)
    /\ UNCHANGED <<bootVars, kbVars, inputVars, scoreVars, sc_hist, intcVars, nput, frames,
                   stub, dtb_parses, dtbVars, shellCtl>>

NextVga == VgaPutchar \/ VgaClear

SpecVga == InitVga /\ [][NextVga]_vars

---------------------------------------------------------------------------
(* VGA scrolling claims *)

\* vga_putchar(c) with the cursor at (x, y) moves the cursor past the last row:
\* a newline on the last row, or a tab or a printed character that wraps there
PastLastRow(c, x, y) ==
    /\ y = VGA_HEIGHT - 1
    /\ \/ c = 10
       \/ c = 9 /\ ((x + 8) \div 8) * 8 >= VGA_WIDTH
       \/ c \notin {8, 9, 10, 13} /\ x + 1 >= VGA_WIDTH

\* The cells vga_putchar(c) writes or erases with the cursor at (x, y)
CellsWritten(c, x, y) ==
    IF c \in {9, 10, 13} THEN {}
    ELSE IF c = 8 THEN (IF x > 0 THEN {y * VGA_WIDTH + x - 1} ELSE {})
    ELSE {y * VGA_WIDTH + x}

\* C30: VGA scrolling.  When a vga_putchar moves the cursor past the last row,
\* every row but the last takes the contents the row below it had when scroll
\* was called (for a wrapping character that includes the character just
\* written), the last row becomes spaces in the current attribute and cursor_y
\* ends on the last row; any other vga_putchar changes no cell other than the
\* one it writes or erases and does not scroll.
C30_Scrolling ==
    [][nput' = nput + 1 =>
          LET c == shown'[1]
              w == CellsWritten(c, cursor_x, cursor_y)
              before == [i \in VgaCells |->
                            IF i \in w THEN vga_entry(IF c = 8 THEN 32 ELSE c, cur_color)
                            ELSE vga_buf[i]]
          IN  IF PastLastRow(c, cursor_x, cursor_y)
              THEN /\ \A r \in 0 .. VGA_HEIGHT - 2, x \in 0 .. VGA_WIDTH - 1 :
                         vga_buf'[r * VGA_WIDTH + x] = before[(r + 1) * VGA_WIDTH + x]
                   /\ \A x \in 0 .. VGA_WIDTH - 1 :
                         vga_buf'[(VGA_HEIGHT - 1) * VGA_WIDTH + x] = vga_entry(32, cur_color)
                   /\ cursor_y' = VGA_HEIGHT - 1
                   /\ nscroll' = 1
              ELSE /\ \A i \in VgaCells \ w : vga_buf'[i] = vga_buf[i]
                   /\ \A i \in w : vga_buf'[i] = before[i]
                   /\ nscroll' = 0]_vars

\* A character written in the last cell of the screen has scrolled it
C30_Witness ==
    /\ nput >= 1
    /\ shown = <<97>>
    /\ nscroll = 1
    /\ cursor_x = 0 /\ cursor_y = VGA_HEIGHT - 1
    /\ CellChar(vga_buf[(VGA_HEIGHT - 1) * VGA_WIDTH - 1]) = 97
    /\ \A x \in 0 .. VGA_WIDTH - 1 :
          vga_buf[(VGA_HEIGHT - 1) * VGA_WIDTH + x] = vga_entry(32, cur_color)

---------------------------------------------------------------------------
(* Shift tracking claims *)

\* The key with make code mk and break code br is down after the scancodes scs:
\* it has had a make code with no later break code
KeyDown(scs, mk, br) ==
    \E i \in 1 .. Len(scs) :
        /\ scs[i] = mk
        /\ \A j \in i + 1 .. Len(scs) : scs[j] # br

\* C31: shift tracking.  After any sequence of scancodes shift_held is 1
\* exactly when at least one of the two shift keys has had a make code with no
\* later break code of that same key.
C31_ShiftTracking ==
    (shift_held = 1) <=> (\/ KeyDown(sc_hist, SC_LSHIFT, SC_LSHIFT_REL)
                          \/ KeyDown(sc_hist, SC_RSHIFT, SC_RSHIFT_REL))

\* What the driver tracks: shift_held is 1 exactly when the last shift code
\* read, of either key, was a make code
C31_LastShiftCode ==
    (shift_held = 1) <=>
        \E i \in 1 .. Len(sc_hist) :
            /\ sc_hist[i] \in {SC_LSHIFT, SC_RSHIFT}
            /\ \A j \in i + 1 .. Len(sc_hist) :
                  sc_hist[j] \notin {SC_LSHIFT, SC_RSHIFT, SC_LSHIFT_REL, SC_RSHIFT_REL}

\* LShift make, RShift make, RShift break: left Shift is still down and the
\* driver has shift_held = 0
C31_LeftShiftStillDown ==
    /\ sc_hist = <<SC_LSHIFT, SC_RSHIFT, SC_RSHIFT_REL>>
    /\ shift_held = 0

---------------------------------------------------------------------------
(* Compatible-string claims *)

\* C32: after hal_hw_detect, compat_str is the matched compatible string: on
\* arm64 empty or exactly one of the allowlisted UART strings, whatever the
\* position of that string in the node's compatible list; on x86_64 empty.
C32_CompatStrIsMatch ==
    KmainPast("hw_detect") =>
        IF arch = "x86_64" THEN g_hw_info.compat_str = <<>>
        ELSE g_hw_info.compat_str \in {<<>>} \cup UartAllowlist

\* C32 for device trees whose UART node lists the allowlisted string first
C32_AllowlistedFirst ==
    (KmainPast("hw_detect") /\ dtb_blob # BoardBlob("pl011_second", "two_regions")) =>
        IF arch = "x86_64" THEN g_hw_info.compat_str = <<>>
        ELSE g_hw_info.compat_str \in {<<>>} \cup UartAllowlist

\* The UART node was matched by "arm,pl011", the second entry of its list, and
\* compat_str holds the first entry, "brcm,bcm2835-pl011"
C32_FirstEntryCopied ==
    /\ KmainPast("hw_detect")
    /\ arch = "arm64"
    /\ ~BytesIsZero(g_hw_info.uart_base)
    /\ g_hw_info.compat_str = SubSeq(CompatBcmPl011, 1, 18)

---------------------------------------------------------------------------
(* RAM provenance claims *)

\* The root children named memory or memory@<unit> that have a reg property
MemoryNodes(tokens) ==
    {i \in NodesOf(tokens) :
        /\ ParentOf(tokens, i) = 1
        /\ \/ tokens[i].name = STR_memory
           \/ /\ Len(tokens[i].name) >= 7
              /\ SubSeq(tokens[i].name, 1, 7) = STR_memory \o <<64>>
        /\ HasReg(tokens, i)}

\* ram_base and ram_size are the reg of a /memory node, decoded with the root
\* cells, or zero when there is no such node
RamFromMemoryNode ==
    LET t  == dtb_blob.struct
        ac == RootCell(t, STR_address_cells)
        sc == RootCell(t, STR_size_cells)
    IN  IF MemoryNodes(t) = {}
        THEN BytesIsZero(s_dtb.ram_base) /\ BytesIsZero(s_dtb.ram_size)
        ELSE \E i \in MemoryNodes(t) :
                /\ s_dtb.ram_base = AddrAt(RegOf(t, i), 1, ac)
                /\ s_dtb.ram_size = AddrAt(RegOf(t, i), ac + 1, sc)

\* C33: RAM provenance.  For a well-formed device tree ram_base and ram_size
\* come only from the reg property of a root child named memory or
\* memory@<unit>, decoded with the root #address-cells / #size-cells; no other
\* root child whose name begins with memory and no deeper node sets them, and
\* without a /memory node ram_size stays 0.
C33_RamProvenance ==
    (DtbParsed /\ dtb_ret = 0) => RamFromMemoryNode

\* C33 for trees without a root child memory-controller@0
C33_NoLookalike ==
    (/\ DtbParsed
     /\ dtb_ret = 0
     /\ \A i \in NodesOf(dtb_blob.struct) :
           dtb_blob.struct[i].name # STR_memory_controller)
        => RamFromMemoryNode

\* The reg of /memory-controller@0 has replaced the reg of /memory@0
C33_LookalikeOverwrites ==
    /\ DtbParsed
    /\ dtb_ret = 0
    /\ dtb_blob.struct = MemoryTree("lookalike")
    /\ s_dtb.ram_base = U64(0, DevAddr.uart0)
    /\ s_dtb.ram_size = U64(0, 4096)

---------------------------------------------------------------------------
(* argv claims *)

\* C34: parse never stores more than MAX_ARGS (16 in the source) argv
\* pointers.  After every commit, whatever the number of tokens on the line,
\* argc is the number of tokens capped at MAX_ARGS, exactly argv[0 .. argc-1]
\* were written, and argv[i] points inside the line buffer at the start of the
\* NUL-terminated i-th token.  (dispatch and cmd_echo read argv below argc
\* only: an index past the stored pointers has no value in the model.)
C34_ArgvBounded ==
    (last_key = 10 /\ last_argc >= 0) =>
        LET ts == Tokens(committed)
        IN  /\ last_argc <= MAX_ARGS
            /\ last_argc = (IF Len(ts) < MAX_ARGS THEN Len(ts) ELSE MAX_ARGS)
            /\ Len(last_argv) = last_argc
            /\ \A i \in 1 .. Len(last_argv) :
                  /\ last_argv[i] \in 0 .. CMD_BUF - 2
                  /\ last_argv[i] + Len(ts[i]) \in 0 .. CMD_BUF - 1
                  /\ line[last_argv[i] + Len(ts[i])] = 0
                  /\ CStr(line, last_argv[i]) = ts[i]
                  /\ last_argv[i] = 0 \/ line[last_argv[i] - 1] \in {0, 32}

\* A line of more than MAX_ARGS tokens was committed and parse stopped storing
\* at MAX_ARGS
C34_Witness ==
    /\ last_key = 10
    /\ Len(Tokens(committed)) > MAX_ARGS
    /\ last_argc = MAX_ARGS
    /\ Len(last_argv) = MAX_ARGS

---------------------------------------------------------------------------
(* SpecGate: interrupt delivery through the gates idt_init installs, the
   handlers of idt.c executed one operation at a time *)

MaxGateKbd == 2

PIC1_CMD == 32
PIC2_CMD == 160

\* Scancodes the keyboard delivers in SpecGate: 'a' and its release
GateScancodes == {30, 158}

\* Mutant of idt_flags: present trap gates (0x8F)
idt_flags_trap(n) == IF n \in 0 .. 47 THEN 143 ELSE 0

\* idt_init: the flags byte of gate n, 0x8E for the 48 installed gates and 0
\* (not present) for the rest of the zero-initialised table
idt_flags(n) == IF n \in 0 .. 47 THEN 142 ELSE 0

\* The CPU clears RFLAGS.IF when it enters through an interrupt gate (type
\* 0xE) and leaves it alone for a trap gate (type 0xF)
GateClearsIF(flags) == flags % 16 = 14

\* Mutant of pic_send_eoi_writes: the master first
pic_send_eoi_master_first(irq) ==
    <<[op |-> "outb", port |-> PIC1_CMD, val |-> 32]>>
        \o (IF irq >= 8 THEN <<[op |-> "outb", port |-> PIC2_CMD, val |-> 32]>> ELSE <<>>)

\* pic_send_eoi: its port writes in program order
pic_send_eoi_writes(irq) ==
    (IF irq >= 8 THEN <<[op |-> "outb", port |-> PIC2_CMD, val |-> 32]>> ELSE <<>>)
        \o <<[op |-> "outb", port |-> PIC1_CMD, val |-> 32]>>

\* irq_handler: what it does in program order, each call of a device handler
\* one operation and each port write one operation
irq_handler_ops(int_no) ==
    (IF int_no = 33 THEN <<[op |-> "keyboard_irq_handler", port |-> 96, val |-> 0]>> ELSE <<>>)
        \o pic_send_eoi_writes((int_no - 32) % 256)

\* A write of OCW2 = 0x20 to a command port of the pair
PicOutb(isr, port, val) ==
    IF val # 32 THEN isr
    ELSE IF port = PIC1_CMD THEN NonSpecificEoi(isr, 0 .. 7)
    ELSE IF port = PIC2_CMD THEN NonSpecificEoi(isr, 8 .. 15)
    ELSE isr

\* The line the pair presents while handlers may be in service: fully nested
\* mode holds back every line that does not outrank all lines in service
GateReady ==
    {l \in PicReady : \A m \in pic_isr : PicRank(l) < PicRank(m)}

\* Handlers of hardware interrupts among the entered handlers
IrqFrames == {i \in 1 .. Len(frames) : frames[i].vec \in 32 .. 47}

\* The code that runs now: the innermost handler, or the mainline
InHandler == frames # <<>>

GateFrame ==
    UNCHANGED <<arch, pc, trace, g_hw_info, tier_printed, g_dtb_addr, dtb_blob,
                s_dtb, s_dtb_done, uart, gicd, gicc, gic_enabled, hal_log, idt_loaded,
                pic_offset1, pic_offset2, hw_irq_in_isr, inputVars, scoreVars, sc_hist,
                gic_pending, gic_active, in_irq, eoi_calls, stub, crtc_cursor,
                dtb_parses, dtbVars, shellCtl>>

\* kmain has entered shell_run on x86_64; the keyboard line, the cascade line
\* and one more line are open in the mask registers
InitGate ==
    /\ arch = "x86_64"
    /\ pc = InShell
    /\ trace = kmain_steps
    /\ cpu = "run"
    /\ gicd = Bytes(0, 0)
    /\ gicc = Bytes(0, 0)
    /\ gic_enabled = {}
    /\ hw_irq_in_isr = FALSE
    /\ exc_printed = -1
    /\ g_dtb_addr = 0
    /\ dtb_blob = ZeroedBlob
    /\ s_dtb = ZeroDtb
    /\ s_dtb_done = FALSE
    /\ uart = Bytes(0, 0)
    /\ iflag = TRUE
    /\ idt_loaded = TRUE
    /\ pic_offset1 = 32
    /\ pic_offset2 = 40
    /\ pic_imr \in {AllLines \ {1, 2, l} : l \in AllLines}
    /\ g_hw_info =
          LET d == cpuid_detect(ZeroHwInfo, 11, 4, 0, 15360, 7936)
          IN  [d EXCEPT !.tier = hal_hw_score(d)]
    /\ tier_printed = print_hw_info(g_hw_info.tier)
    /\ hal_log = {}
    /\ KbInit /\ InputIdle /\ ScoreIdle /\ DtbIdle /\ ShellIdle /\ IntcIdle /\ VgaIdle /\ GateIdle

\* An unmasked line is raised: by its device, or on the cascade input
GateRaise ==
    /\ cpu = "run"
    /\ \E l \in AllLines \ pic_imr :
          /\ l \notin pic_irr
          /\ l = 1 => nirq < MaxGateKbd
          /\ pic_irr' = pic_irr \cup {l}
    /\ UNCHANGED <<cpu, iflag, exc_printed, kbVars, pic_imr, pic_isr, nput, frames, vgaVars>>
    /\ GateFrame

\* The CPU takes the interrupt the pair presents: the acknowledge cycle moves
\* the line from request to service (with the cascade line for a slave line),
\* RFLAGS is saved in the hardware frame, and IF is cleared iff the gate of the
\* vector is an interrupt gate
GateTake ==
    /\ cpu = "run"
    /\ iflag /\ idt_loaded
    /\ GateReady # {}
    /\ LET l == CHOOSE r \in GateReady : \A m \in GateReady : PicRank(r) <= PicRank(m)
           v == PicVector(l)
       IN  /\ pic_irr' = pic_irr \ {l}
           /\ pic_isr' = pic_isr \cup {l} \cup (IF l >= 8 THEN {2} ELSE {})
           /\ frames' = <<[vec |-> v, ops |-> irq_handler_ops(v), log |-> <<>>,
                           rflags_if |-> iflag]>> \o frames
           /\ iflag' = IF GateClearsIF(idt_flags(v)) THEN FALSE ELSE iflag
    /\ UNCHANGED <<cpu, exc_printed, kbVars, pic_imr, nput, vgaVars>>
    /\ GateFrame

\* The innermost handler executes its next operation
GateStep ==
    /\ cpu = "run"
    /\ InHandler
    /\ Head(frames).ops # <<>>
    /\ LET f == Head(frames)
           o == Head(f.ops)
       IN  /\ frames' = <<[f EXCEPT !.ops = Tail(@), !.log = Append(@, o)]>> \o Tail(frames)
           /\ IF o.op = "keyboard_irq_handler"
              THEN /\ \E sc \in GateScancodes : keyboard_irq_handler(sc)
                   /\ nirq' = nirq + 1
                   /\ UNCHANGED <<kb_tail, pic_isr>>
              ELSE /\ pic_isr' = PicOutb(pic_isr, o.port, o.val)
                   /\ UNCHANGED kbVars
    /\ UNCHANGED <<cpu, iflag, exc_printed, pic_imr, pic_irr, nput, vgaVars>>
    /\ GateFrame

\* irq_handler has returned and irq_common_stub executes iretq, which restores
\* RFLAGS from the hardware frame
GateIret ==
    /\ cpu = "run"
    /\ InHandler
    /\ Head(frames).ops = <<>>
    /\ iflag' = Head(frames).rflags_if
    /\ frames' = Tail(frames)
    /\ UNCHANGED <<cpu, exc_printed, kbVars, pic_imr, pic_irr, pic_isr, nput, vgaVars>>
    /\ GateFrame

\* The mainline takes a byte from the keyboard ring and prints it
GateMainline ==
    /\ cpu = "run"
    /\ ~InHandler
    /\ kb_head # kb_tail
    /\ DisplayBecomes(vga_putchar(Display, kb_buf[kb_tail]))
    /\ kb_tail' = (kb_tail + 1) % KB_BUF_SIZE
    /\ nput' = nput + 1
    /\ UNCHANGED <<cpu, iflag, exc_printed, nirq, kb_buf, kb_head, shift_held, accepted,
                   dropped, pic_imr, pic_irr, pic_isr, frames>>
    /\ GateFrame

\* The running code, mainline or handler, raises a CPU exception: isr_handler
\* is entered through its interrupt gate, prints and halts
GateFault ==
    /\ cpu = "run"
    /\ \E e \in ExcVectors :
          /\ isr_handler(e)
          /\ frames' = <<[vec |-> e, ops |-> <<>>, log |-> <<>>, rflags_if |-> iflag]>> \o frames
    /\ UNCHANGED <<kbVars, pic_imr, pic_irr, pic_isr, nput>>
    /\ GateFrame

NextGate ==
    GateRaise \/ GateTake \/ GateStep \/ GateIret \/ GateMainline \/ GateFault

SpecGate == InitGate /\ [][NextGate]_vars

---------------------------------------------------------------------------
(* Handler nesting claims *)

\* C35: no handler nesting on x86_64.  All 48 installed gates are interrupt
\* gates; a handler runs with IF clear; while isr_handler or irq_handler is
\* entered no handler of a hardware interrupt is entered; the mainline takes no
\* step (ring consumer index, screen output) between the entry of a handler and
\* its iretq, so keyboard_irq_handler with its buf_push is one uninterrupted
\* step for the mainline; and the screen is written by the mainline or by
\* isr_handler only, after whose output neither the mainline nor any handler
\* it interrupted takes another step.
C35_NoNesting ==
    [][/\ \A n \in 0 .. 47 : GateClearsIF(idt_flags(n))
       /\ InHandler' => ~iflag'
       /\ Cardinality(IrqFrames') <= 1
       /\ (InHandler /\ Len(frames') > Len(frames)) => Head(frames').vec \notin 32 .. 47
       /\ InHandler => (kb_tail' = kb_tail /\ nput' = nput)
       /\ (kbVars' # kbVars /\ kb_tail' = kb_tail) =>
             (InHandler /\ Head(frames).vec = 33 /\ Len(frames') = Len(frames))
       /\ vgaVars' # vgaVars =>
             \/ ~InHandler /\ ~InHandler' /\ cpu' = "run"
             \/ cpu' = "exc_halt" /\ Len(frames') = Len(frames) + 1
       /\ exc_printed # -1 => UNCHANGED <<frames, vgaVars, kbVars, nput, cpu, iflag>>]_vars

\* The keyboard handler is entered and has not yet signalled end-of-interrupt
\* while the timer line, which outranks the keyboard line, requests service
\* through an open mask: only IF holds the timer's handler back
C35_Witness ==
    /\ InHandler
    /\ Head(frames).vec = 33
    /\ Head(frames).log = <<>>
    /\ 0 \in GateReady
    /\ ~iflag
    /\ cpu = "run"

\* An exception was taken inside irq_handler: isr_handler printed and halted
\* with the interrupted handler still entered
C35_FaultInHandler ==
    /\ Len(frames) = 2
    /\ frames[1].vec \in ExcVectors
    /\ frames[2].vec = 33
    /\ cpu = "exc_halt"
    /\ exc_printed = frames[1].vec

---------------------------------------------------------------------------
(* End-of-interrupt order claims *)

IsOutb(o) == o.op = "outb"

IsDeviceCall(o) == o.op # "outb"

\* C36: for every hardware vector v in 32..47, when irq_handler returns to the
\* stub's iretq it has called keyboard_irq_handler once if v = 33 and no device
\* handler otherwise, and after that call it has written 0x20 to the slave's
\* command port once iff v - 32 >= 8 and then once to the master's, and
\* nothing else; those writes end the service of line v - 32 (and of the
\* cascade line), and until the handler's first port write the line stays in
\* service.
C36_EoiOnceAfterDevice ==
    [][/\ (InHandler /\ frames' = Tail(frames) /\ Head(frames).vec \in 32 .. 47) =>
             LET f    == Head(frames)
                 irq  == f.vec - 32
                 devs == SelectSeq(f.log, IsDeviceCall)
                 outs == SelectSeq(f.log, IsOutb)
             IN  /\ f.log = devs \o outs
                 /\ Len(devs) = (IF f.vec = 33 THEN 1 ELSE 0)
                 /\ \A i \in 1 .. Len(devs) : devs[i].op = "keyboard_irq_handler"
                 /\ \A i \in 1 .. Len(outs) : outs[i].val = 32
                 /\ Len(outs) = (IF irq >= 8 THEN 2 ELSE 1)
                 /\ outs[Len(outs)].port = PIC1_CMD
                 /\ irq >= 8 => outs[1].port = PIC2_CMD
                 /\ irq \notin pic_isr
                 /\ irq >= 8 => 2 \notin pic_isr
       /\ (InHandler' /\ Head(frames').vec \in 32 .. 47
             /\ SelectSeq(Head(frames').log, IsOutb) = <<>>) =>
             (Head(frames').vec - 32) \in pic_isr'
       /\ \A v \in 32 .. 47 :
             /\ Len(SelectSeq(irq_handler_ops(v), IsDeviceCall)) = (IF v = 33 THEN 1 ELSE 0)
             /\ Len(SelectSeq(irq_handler_ops(v), IsOutb)) = (IF v >= 40 THEN 2 ELSE 1)]_vars

\* The handler of a slave line (the RTC, vector 40) has written both EOIs and
\* is about to return
C36_Witness ==
    /\ InHandler
    /\ Head(frames).vec = 40
    /\ Head(frames).ops = <<>>
    /\ Len(Head(frames).log) = 2
    /\ Head(frames).log[1].port = PIC2_CMD
    /\ Head(frames).log[2].port = PIC1_CMD
    /\ pic_isr = {}

\* The keyboard handler has run and the EOI to the master is still to come
C36_KeyboardBeforeEoi ==
    /\ InHandler
    /\ Head(frames).vec = 33
    /\ Len(Head(frames).log) = 1
    /\ Head(frames).log[1].op = "keyboard_irq_handler"
    /\ 1 \in pic_isr
    /\ nirq = 1

---------------------------------------------------------------------------
(* SpecStub: the IRQ stubs of entry.asm executed instruction by instruction.
   The stack is a sequence of 8-byte words, top first; rsp is its top. *)

\* The general-purpose registers in the order irq_common_stub pushes them
PushOrder ==
    <<"rax", "rbx", "rcx", "rdx", "rsi", "rdi", "rbp", "r8",
      "r9", "r10", "r11", "r12", "r13", "r14", "r15">>

\* ... and in the order it pops them
PopOrder ==
    <<"r15", "r14", "r13", "r12", "r11", "r10", "r9", "r8",
      "rbp", "rdi", "rsi", "rdx", "rcx", "rbx", "rax">>

GPRs == {PushOrder[i] : i \in 1 .. 15}

\* Registers a System V callee may leave changed
CallerSaved == {"rax", "rcx", "rdx", "rsi", "rdi", "r8", "r9", "r10", "r11"}

\* registers_t: its fields from the lowest address
registers_t ==
    <<"r15", "r14", "r13", "r12", "r11", "r10", "r9", "r8",
      "rbp", "rdi", "rsi", "rdx", "rcx", "rbx", "rax",
      "int_no", "err_code", "rip", "cs", "rflags", "rsp", "ss">>

\* Field name of a registers_t read through a pointer to stack word 1
Field(stack, name) ==
    stack[CHOOSE i \in 1 .. Len(registers_t) : registers_t[i] = name]

\* The frame the CPU pushes in 64-bit mode: ss, rsp, rflags, cs, rip, here
\* five values that occur nowhere else
HwFrame == <<1001, 1002, 1003, 1004, 1005>>

\* Register contents at interrupt entry, a different value in every register
EntryRegs == [r \in GPRs |-> CHOOSE i \in 1 .. 15 : PushOrder[i] = r]

\* Macro IRQ n, v: push qword 0; push qword v; jmp irq_common_stub
IRQ(n, v) ==
    <<[ins |-> "push_imm", arg |-> 0], [ins |-> "push_imm", arg |-> v],
      [ins |-> "jmp", arg |-> "irq_common_stub"]>>

\* The sixteen instances of the macro: IRQ 0, 32 ... IRQ 15, 47
irq_stub(n) == IRQ(n, 32 + n)

\* Mutant of irq_common_stub: the pops in the order of the pushes
irq_common_stub_unmirrored ==
    [i \in 1 .. 15 |-> [ins |-> "push", arg |-> PushOrder[i]]]
        \o <<[ins |-> "mov_rdi_rsp", arg |-> 0], [ins |-> "call", arg |-> "irq_handler"]>>
        \o [i \in 1 .. 15 |-> [ins |-> "pop", arg |-> PushOrder[i]]]
        \o <<[ins |-> "add_rsp", arg |-> 16], [ins |-> "iretq", arg |-> 0]>>

\* irq_common_stub
irq_common_stub ==
    [i \in 1 .. 15 |-> [ins |-> "push", arg |-> PushOrder[i]]]
        \o <<[ins |-> "mov_rdi_rsp", arg |-> 0], [ins |-> "call", arg |-> "irq_handler"]>>
        \o [i \in 1 .. 15 |-> [ins |-> "pop", arg |-> PopOrder[i]]]
        \o <<[ins |-> "add_rsp", arg |-> 16], [ins |-> "iretq", arg |-> 0]>>

\* The instructions executed from the gate's entry point to iretq
StubCode(n) == SubSeq(irq_stub(n), 1, 2) \o irq_common_stub

\* What the C handler may leave in the registers when it returns: nothing
\* changed, the caller-saved registers overwritten, or every register
\* overwritten (a handler that breaks the calling convention)
Clobbers == {{}, CallerSaved, GPRs}

StubRunning == stub.pc # 0

\* The instruction the stub executes next
StubIns == StubCode(stub.vec - 32)[stub.pc]

StubFrame ==
    UNCHANGED <<bootVars, kbVars, inputVars, scoreVars, sc_hist, intcVars, nput, frames,
                crtc_cursor, dtb_parses, dtbVars, shellVars>>

InitStub ==
    /\ Booted
    /\ arch = "x86_64"
    /\ pic_imr = pic_unmask(AllLines, 1)
    /\ KbInit /\ InputIdle /\ ScoreIdle /\ DtbIdle /\ ShellIdle /\ IntcIdle /\ VgaIdle /\ GateIdle

\* The CPU delivers vector v through its gate: the hardware frame is on the
\* stack and rip is at irq(v-32)
StubEnter ==
    /\ ~StubRunning
    /\ \E v \in 32 .. 47 :
          stub' = [pc |-> 1, vec |-> v, regs |-> EntryRegs, stack |-> HwFrame,
                   seen_int_no |-> -1, seen_err_code |-> -1, clobbered |-> {}]
    /\ StubFrame

\* One instruction of the stub other than the call
StubExec ==
    /\ StubRunning
    /\ StubIns.ins # "call"
    /\ LET i == StubIns
       IN  stub' =
             IF i.ins = "push_imm"
             THEN [stub EXCEPT !.pc = @ + 1, !.stack = <<i.arg>> \o @]
             ELSE IF i.ins = "push"
             THEN [stub EXCEPT !.pc = @ + 1, !.stack = <<stub.regs[i.arg]>> \o @]
             ELSE IF i.ins = "pop"
             THEN [stub EXCEPT !.pc = @ + 1, !.regs[i.arg] = Head(stub.stack),
                               !.stack = Tail(@)]
             ELSE IF i.ins = "mov_rdi_rsp"
             THEN [stub EXCEPT !.pc = @ + 1, !.regs["rdi"] = -1]
             ELSE IF i.ins = "add_rsp"
             THEN [stub EXCEPT !.pc = @ + 1,
                               !.stack = SubSeq(@, i.arg \div 8 + 1, Len(@))]
             ELSE [pc |-> 0]
    /\ StubFrame

\* call irq_handler: the return address is pushed, the handler reads int_no
\* and err_code through its registers_t pointer, leaves the registers as it
\* likes, and its ret pops the return address
StubCall ==
    /\ StubRunning
    /\ StubIns.ins = "call"
    /\ \E cl \in Clobbers :
          stub' = [stub EXCEPT !.pc = @ + 1,
                               !.regs = [r \in GPRs |-> IF r \in cl THEN 0 ELSE @[r]],
                               !.seen_int_no = Field(stub.stack, "int_no"),
                               !.seen_err_code = Field(stub.stack, "err_code"),
                               !.clobbered = cl]
    /\ StubFrame

NextStub == StubEnter \/ StubExec \/ StubCall

SpecStub == InitStub /\ [][NextStub]_vars

---------------------------------------------------------------------------
(* Interrupt stub claims *)

\* C37: the interrupt stubs preserve registers and stack.  For every vector
\* 32..47, when the stub is about to execute iretq every one of the 15
\* general-purpose registers holds its value from interrupt entry whatever the
\* handler left in the registers, and the stack is exactly the CPU-pushed
\* frame (the pops mirror the pushes and add rsp, 16 discards int_no and
\* err_code and nothing else); the handler has read int_no equal to the vector
\* and err_code 0.
C37_StubPreserves ==
    /\ (StubRunning /\ StubIns.ins = "iretq") =>
          /\ stub.regs = EntryRegs
          /\ stub.stack = HwFrame
          /\ stub.seen_int_no = stub.vec
          /\ stub.seen_err_code = 0
    /\ (StubRunning /\ StubIns.ins = "add_rsp") =>
          /\ StubIns.arg = 16
          /\ stub.stack = <<stub.vec, 0>> \o HwFrame
    /\ \A i \in 1 .. 15 : PopOrder[i] = PushOrder[16 - i]

\* The stub of vector 47 is at its iretq after a handler that overwrote every
\* register
C37_Witness ==
    /\ StubRunning
    /\ stub.vec = 47
    /\ StubIns.ins = "iretq"
    /\ stub.seen_int_no = 47
    /\ stub.clobbered = GPRs

\* The handler has just returned with every register overwritten
C37_Clobbered ==
    /\ StubRunning
    /\ StubIns.ins = "pop"
    /\ StubIns.arg = "r15"
    /\ stub.clobbered = GPRs
    /\ \A r \in GPRs : stub.regs[r] = 0

---------------------------------------------------------------------------
(* VGA cursor claims *)

\* The cursor is on the screen and the CRTC cursor registers hold its cell
CursorInvariant ==
    /\ cursor_x \in 0 .. VGA_WIDTH - 1
    /\ cursor_y \in 0 .. VGA_HEIGHT - 1
    /\ crtc_cursor = cursor_y * VGA_WIDTH + cursor_x

\* C38: VGA cursor invariant.  After vga_init, and after every vga_putchar (of
\* any character, so after every vga_print) and every vga_clear, the cursor is
\* inside the screen and the hardware cursor is at cursor_y * VGA_WIDTH +
\* cursor_x; every cell a vga_putchar writes or erases is a cell of the
\* framebuffer; a backspace at column 0 changes neither the cursor nor any
\* cell; vga_clear leaves the cursor at home.
C38_CursorInvariant ==
    [][/\ CursorInvariant
       /\ CursorInvariant'
       /\ nput' = nput + 1 =>
             LET c == shown'[1]
             IN  /\ CellsWritten(c, cursor_x, cursor_y) \subseteq VgaCells
                 /\ \A i \in VgaCells :
                       (vga_buf'[i] # vga_buf[i] /\ nscroll' = 0)
                           => i \in CellsWritten(c, cursor_x, cursor_y)
                 /\ (c = 8 /\ cursor_x = 0) =>
                       UNCHANGED <<vga_buf, cursor_x, cursor_y, crtc_cursor>>
       /\ (nput' = nput /\ vgaVars' # vgaVars) =>
             (cursor_x' = 0 /\ cursor_y' = 0 /\ crtc_cursor' = 0)]_vars
    /\ LET d == vga_init
       IN  /\ d.x = 0 /\ d.y = 0
           /\ update_cursor(d) = 0

\* A backspace was given with the cursor at column 0 of a row below the first
C38_Witness ==
    /\ nput >= 1
    /\ shown = <<8>>
    /\ cursor_x = 0
    /\ cursor_y > 0
    /\ crtc_cursor = cursor_y * VGA_WIDTH

\* A tab on the last row wrapped and scrolled; the hardware cursor followed
C38_TabWrapped ==
    /\ shown = <<9>>
    /\ nscroll = 1
    /\ cursor_x = 0
    /\ cursor_y = VGA_HEIGHT - 1
    /\ crtc_cursor = (VGA_HEIGHT - 1) * VGA_WIDTH

---------------------------------------------------------------------------
(* x86_64 detection claims *)

\* 16-bit CMOS values at the ends of the range and around the 128 MiB floor
\* ((1024 + kb_low) + 64 * kb_ext = 131072 KiB)
Kb16 == {0, 1, 2031, 2032, 2033, 15360, 65535}

\* The larger of two byte counts
BytesMax(x, y) == IF BytesLE(x, y) THEN y ELSE x

\* C39: x86_64 detection never yields an unknown descriptor.  For all CPUID
\* register values and all 16-bit kb_low, kb_ext, cpuid_detect sets cpu_cores
\* >= 1 and ram_bytes = max(128 MiB, (1024 + kb_low) * 1024 + kb_ext * 65536);
\* the 32-bit sum 1024 + kb_low stays below 2^32 and the 64-bit total below
\* 2^64 (2^24 TiB), so no operation wraps; hal_hw_score of such a descriptor is
\* not TIER_FALLBACK, and on x86_64 kmain never holds or prints that tier once
\* it has scored.  (The register values are enumerated where kmain is about to
\* call hal_hw_detect.)
C39_X86NeverUnknown ==
    /\ (arch = "x86_64" /\ KmainAt("hw_detect")) =>
       \A ml \in CpuidMaxLeaf \cup {0, 10, 12}, eb \in CpuidEbxB \cup {65536, 65535},
          e1 \in CpuidEbx1 \cup {255 * 65536, 65535}, kl \in Kb16, ke \in Kb16 :
          LET d     == cpuid_detect(ZeroHwInfo, ml, eb, e1, kl, ke)
              total == Bytes((1024 + kl) + 64 * ke, 0)
          IN  /\ d.cpu_cores >= 1
              /\ d.ram_bytes = BytesMax(MiB(128), total)
              /\ (1024 + kl) \div 65536 < 65536
              /\ total.kib \div 1073741824 < 16777216
              /\ hal_hw_score(d) # TIER_FALLBACK
    /\ (arch = "x86_64" /\ KmainPast("hw_detect")) =>
          /\ g_hw_info.cpu_cores >= 1
          /\ BytesLE(MiB(128), g_hw_info.ram_bytes)
          /\ hal_hw_score(g_hw_info) # TIER_FALLBACK
    /\ (arch = "x86_64" /\ KmainPast("score")) => g_hw_info.tier # TIER_FALLBACK
    /\ (arch = "x86_64" /\ KmainPast("print_hw_info")) =>
          tier_printed \in {"LOW", "MID", "HIGH"}

\* CPUID reported no core count in either leaf and the CMOS no extended
\* memory: one core, 128 MiB, scored LOW
C39_Witness ==
    /\ arch = "x86_64"
    /\ KmainPast("score")
    /\ g_hw_info.cpu_cores = 1
    /\ g_hw_info.ram_bytes = MiB(128)
    /\ g_hw_info.tier = TIER_LOW

---------------------------------------------------------------------------
(* Device tree caching claims *)

\* One parse at most, and drivers and descriptor hold what the cache holds
DtbCacheAgrees ==
    /\ dtb_parses <= 1
    /\ arch = "x86_64" => (dtb_parses = 0 /\ ~s_dtb_done)
    /\ arch = "arm64" =>
          /\ s_dtb_done <=> dtb_parses = 1
          /\ s_dtb_done <=> KmainPast("serial_init")
          /\ KmainPast("serial_init") => uart = s_dtb.uart_base
          /\ KmainPast("hw_detect") =>
                /\ g_hw_info.uart_base = uart
                /\ g_hw_info.uart_base = s_dtb.uart_base
                /\ g_hw_info.intc_dist_base = s_dtb.gic_dist_base
                /\ g_hw_info.intc_base = s_dtb.gic_cpu_base
          /\ (KmainPast("intc_init") /\ ~BytesIsZero(gicd)) =>
                (gicd = s_dtb.gic_dist_base /\ gicc = s_dtb.gic_cpu_base)

\* C40: the DTB is parsed at most once per boot.  The first of
\* hal_serial_init, hal_intc_init and hal_hw_detect to run (hal_serial_init in
\* kmain) makes the one call of dtb_parse; once the flag is set no step calls
\* dtb_parse or changes the cached result; the PL011 is initialised with the
\* cached uart_base, the GIC with the cached GIC bases, and g_hw_info reports
\* the same uart_base and GIC bases.
C40_ParsedOnce ==
    [][/\ DtbCacheAgrees
       /\ DtbCacheAgrees'
       /\ s_dtb_done => (s_dtb_done' /\ s_dtb' = s_dtb /\ dtb_parses' = dtb_parses)
       /\ dtb_parses' # dtb_parses =>
             /\ ~s_dtb_done /\ s_dtb_done' /\ dtb_parses' = 1 /\ KmainAt("serial_init")
             /\ s_dtb' = dtb_parse(g_dtb_addr, dtb_blob, ZeroDtb).out
       /\ s_dtb' # s_dtb => dtb_parses' # dtb_parses]_vars

\* An arm64 board with a PL011 and a GIC has booted into the shell: three
\* calls of dtb_init, one parse, and descriptor and drivers agree on the bases
C40_Witness ==
    /\ arch = "arm64"
    /\ pc = InShell
    /\ dtb_parses = 1
    /\ ~BytesIsZero(uart)
    /\ ~BytesIsZero(gicd)
    /\ g_hw_info.uart_base = uart
    /\ g_hw_info.intc_dist_base = gicd

\* A board whose blob fails the magic test: parsed once, not retried
C40_FailedParseNotRetried ==
    /\ arch = "arm64"
    /\ pc = InShell
    /\ dtb_blob = BadMagicBlob
    /\ dtb_parses = 1
    /\ BytesIsZero(uart)

====
